---------------------------- MODULE Spec2Model ----------------------------
(***************************************************************************)
(* A model of the eiba-fu transpiler: lexer, parser, pipe desugaring, the  *)
(* dynamic (JavaScript) backend, the compiler driver and the type checker. *)
(* Each component has its own variables and its own specification; the     *)
(* variables of the other components stay at their idle values.            *)
(***************************************************************************)
EXTENDS Integers, Sequences, FiniteSets, TLC

VARIABLES
  \* parser component
  src,      \* the token stream handed to the parser
  ast,      \* the node parse_expr returned (Null when it returned null)
  call,     \* the node pipe_node_to_fn_call_node returned
  pcur,     \* tokens the parser has consumed
  ppc,      \* "start" | "parsed" | "desugared"
  \* lexer component (SimpLexer)
  buf,      \* the input, a sequence of characters
  cursor,   \* index (from 0) of the character read last, -1 at the start
  line,
  column,
  tok,      \* #tok, the token returned last
  lpc,      \* "ready" between calls of next(), "string" inside the string loop
  lstr,     \* str, the text of the string literal read so far
  lch,      \* ch, the character the string loop looks at
  lpk,      \* the token peek() returned since the last next() (Null when none)
  \* dynamic backend (JavascriptCodegen) and a run of the code it emits
  jfn,      \* the FuncDecl node handed to node_to_code
  jout,     \* what node_to_code returned: code, an Error, or an exception
  jenv,     \* the values of the parameters in the running emitted loop
  jargs,    \* the values the tail call of this iteration passes
  jip,      \* index of the next statement of the emitted loop body
  jiter,    \* iterations of the emitted loop completed
  jpc,      \* "start" | "emitted" | "running"
  \* compiler driver (index.ts)
  dargv,    \* the command-line arguments
  dopt,     \* opt, the options read from the arguments
  dinput,   \* input_path
  dpc,      \* the place of the script that runs next
  derrored, \* errored
  dtop,     \* number of nodes in top_level
  dok,      \* the stages that have reported success
  dflushed, \* codegen.flush has been called
  dexit,    \* the exit status, Running while the process runs
  dwhy,     \* what ended the process
  \* type equivalence (types_are_equivalent)
  ta,       \* the first type compared
  tb,       \* the second type compared
  taa,      \* what types_are_equivalent(ta, ta) ended with
  tab,      \* what types_are_equivalent(ta, tb) ended with
  tba,      \* what types_are_equivalent(tb, ta) ended with
  tpc,      \* "start" | "compared"
  \* type checker (check_types on function calls)
  cvars,    \* the variables of the context: name -> type
  cpre,     \* the variables as they were before the last call was checked
  cnode,    \* the FuncCall node checked last
  cres,     \* what check_types ended with: "true", "false" or "throw"
  \* type checker (scopes of a function body)
  sbody,    \* the statements of the function body
  si,       \* index of the statement checked next
  sctx,     \* the variable table of fn_ctx: name -> [type, loc]
  slast,    \* the statement checked last, the table before it, the result
  sres,     \* "running", or what check_types of the function ended with
  \* static backend (replace_print_calls)
  gorig,    \* the AST as parsed
  gprev,    \* the AST before the last rewrite
  gast,     \* the AST
  gret,     \* what the last replace_print_calls returned
  gn,       \* rewrites applied so far
  \* emitted runtime prelude (printf, printnf)
  rbuf,     \* printf.__buffer, a sequence of characters
  rout,     \* the text written to the output device
  rall,     \* the formatted strings produced so far, concatenated
  rn,       \* calls of printf and printnf so far
  \* emitted runtime prelude (exec)
  eyields,  \* the values the generator yields, in order
  ereturn,  \* the value the generator returns
  ei,       \* yields the generator has reached
  estep,    \* step: [value, done]
  epromise, \* state of the promise exec awaits
  efed,     \* the resumptions: the yield resumed, the value passed in
  epc,      \* position of exec
  eresult,  \* the value exec returned
  \* parser (statements)
  vsrc,     \* the tokens of the statement
  vnode,    \* the node parse_statement returned (Null when it returned null)
  vcur,     \* tokens consumed
  verr,     \* the logger was given a message
  vpc,      \* "start", "parsed"
  \* typechecker contexts (TypesContext)
  xctx,     \* the contexts from the root to the innermost child: types, vars
  xglobal,  \* TypesContext.global_types and TypesContext.global_vars
  gnode,    \* the FuncDecl node given to register_global
  gvars,    \* TypesContext.global_vars: name -> type
  gres      \* the Result of register_global, "none" before the call

parserVars == <<src, ast, call, pcur, ppc>>
lexerVars == <<buf, cursor, line, column, tok, lpc, lstr, lch, lpk>>
jsVars == <<jfn, jout, jenv, jargs, jip, jiter, jpc>>
driverVars ==
  <<dargv, dopt, dinput, dpc, derrored, dtop, dok, dflushed, dexit, dwhy>>
equivVars == <<ta, tb, taa, tab, tba, tpc>>
checkVars == <<cvars, cpre, cnode, cres>>
scopeVars == <<sbody, si, sctx, slast, sres>>
goVars == <<gorig, gprev, gast, gret, gn>>
printVars == <<rbuf, rout, rall, rn>>
execVars == <<eyields, ereturn, ei, estep, epromise, efed, epc, eresult>>
stmtVars == <<vsrc, vnode, vcur, verr, vpc>>
ctxVars == <<xctx, xglobal>>
regVars == <<gnode, gvars, gres>>

vars == <<parserVars, lexerVars, jsVars, driverVars, equivVars, checkVars,
          scopeVars, goVars, printVars, execVars, stmtVars, ctxVars, regVars>>

(***************************************************************************)
(* Bounds of the model                                                     *)
(***************************************************************************)
MaxOperands == 4      \* operands in a generated binary-operator chain
MaxPipe == 2          \* pipe targets in a generated pipe chain
MaxBuf == 3           \* characters of a lexer input
MaxOver == 2          \* reads past the end of the input that are told apart
MaxStmts == 1         \* statements before the last one of a generated function
MaxVal == 1           \* largest initial value of a parameter
MaxIter == 2          \* iterations of an emitted loop that are run
MaxArgs == 3          \* command-line arguments
MaxTop == 2           \* top-level statements of a compiled file
MaxMembers == 2       \* members of a generated enum
MaxCallArgs == 3      \* arguments of a generated call
MaxBody == 2          \* statements of a generated function body
MaxBlock == 2         \* statements of a generated if body
MaxGoArgs == 2        \* arguments of a generated print call
MaxRewrites == 2      \* rewrites applied to one AST
MaxPrints == 2        \* calls of printf and printnf in one run
MaxYields == 2        \* yields of one generator
MaxDepth == 2         \* contexts from the root to the innermost child
MaxFnBody == 2        \* statements in the body of a registered function

\* JavaScript's null: a failed parse, the token of a lexer not yet asked
Null == [kind |-> "null"]
\* JavaScript's undefined: the value of buf[i] for i outside the input
Undef == "undefined"

(***************************************************************************)
(* The idle state of each component, and the frame of its actions          *)
(***************************************************************************)
ParserIdle ==
  /\ src = <<>>
  /\ ast = Null
  /\ call = Null
  /\ pcur = 0
  /\ ppc = "idle"

LexerIdle ==
  /\ buf = <<>>
  /\ cursor = -1
  /\ line = 1
  /\ column = 0
  /\ tok = Null
  /\ lpc = "idle"
  /\ lstr = ""
  /\ lch = Undef
  /\ lpk = Null

JsIdle ==
  /\ jfn = Null
  /\ jout = Null
  /\ jenv = <<>>
  /\ jargs = <<>>
  /\ jip = 0
  /\ jiter = 0
  /\ jpc = "idle"

\* the exit status of a process that has not exited
Running == -1

\* opt as the script initialises it
DefaultOpt ==
  [run |-> FALSE, help |-> FALSE, emit_ir |-> FALSE, output |-> "./build/",
   target |-> "golang", runtime |-> "node"]

DriverIdle ==
  /\ dargv = <<>>
  /\ dopt = DefaultOpt
  /\ dinput = Undef
  /\ dpc = "idle"
  /\ derrored = FALSE
  /\ dtop = 0
  /\ dok = {}
  /\ dflushed = FALSE
  /\ dexit = Running
  /\ dwhy = "none"

EquivIdle ==
  /\ ta = Null
  /\ tb = Null
  /\ taa = "none"
  /\ tab = "none"
  /\ tba = "none"
  /\ tpc = "idle"

CheckIdle ==
  /\ cvars = <<>>
  /\ cpre = <<>>
  /\ cnode = Null
  /\ cres = "none"

ScopeIdle ==
  /\ sbody = <<>>
  /\ si = 0
  /\ sctx = <<>>
  /\ slast = Null
  /\ sres = "idle"

GoIdle ==
  /\ gorig = Null
  /\ gprev = Null
  /\ gast = Null
  /\ gret = FALSE
  /\ gn = 0

PrintIdle ==
  /\ rbuf = <<>>
  /\ rout = <<>>
  /\ rall = <<>>
  /\ rn = -1

ExecIdle ==
  /\ eyields = <<>>
  /\ ereturn = Null
  /\ ei = 0
  /\ estep = Null
  /\ epromise = "none"
  /\ efed = <<>>
  /\ epc = "idle"
  /\ eresult = Null

StmtIdle ==
  /\ vsrc = <<>>
  /\ vnode = Null
  /\ vcur = 0
  /\ verr = FALSE
  /\ vpc = "idle"

RegIdle ==
  /\ gnode = Null
  /\ gvars = <<>>
  /\ gres = "none"

CtxIdle ==
  /\ xctx = <<>>
  /\ xglobal = [types |-> <<>>, vars |-> <<>>]

\* every component but c is idle
OthersIdle(c) ==
  /\ IF c = "parser" THEN TRUE ELSE ParserIdle
  /\ IF c = "lexer" THEN TRUE ELSE LexerIdle
  /\ IF c = "js" THEN TRUE ELSE JsIdle
  /\ IF c = "driver" THEN TRUE ELSE DriverIdle
  /\ IF c = "equiv" THEN TRUE ELSE EquivIdle
  /\ IF c = "check" THEN TRUE ELSE CheckIdle
  /\ IF c = "scope" THEN TRUE ELSE ScopeIdle
  /\ IF c = "go" THEN TRUE ELSE GoIdle
  /\ IF c = "print" THEN TRUE ELSE PrintIdle
  /\ IF c = "exec" THEN TRUE ELSE ExecIdle
  /\ IF c = "stmt" THEN TRUE ELSE StmtIdle
  /\ IF c = "ctx" THEN TRUE ELSE CtxIdle
  /\ IF c = "reg" THEN TRUE ELSE RegIdle

\* an action of component c leaves the other components alone
Frame(c) ==
  /\ IF c = "parser" THEN TRUE ELSE UNCHANGED parserVars
  /\ IF c = "lexer" THEN TRUE ELSE UNCHANGED lexerVars
  /\ IF c = "js" THEN TRUE ELSE UNCHANGED jsVars
  /\ IF c = "driver" THEN TRUE ELSE UNCHANGED driverVars
  /\ IF c = "equiv" THEN TRUE ELSE UNCHANGED equivVars
  /\ IF c = "check" THEN TRUE ELSE UNCHANGED checkVars
  /\ IF c = "scope" THEN TRUE ELSE UNCHANGED scopeVars
  /\ IF c = "go" THEN TRUE ELSE UNCHANGED goVars
  /\ IF c = "print" THEN TRUE ELSE UNCHANGED printVars
  /\ IF c = "exec" THEN TRUE ELSE UNCHANGED execVars
  /\ IF c = "stmt" THEN TRUE ELSE UNCHANGED stmtVars
  /\ IF c = "ctx" THEN TRUE ELSE UNCHANGED ctxVars
  /\ IF c = "reg" THEN TRUE ELSE UNCHANGED regVars

(***************************************************************************)
(* Tokens (lexer.ts, Token) and AST nodes (parser, AstNode).  Source       *)
(* positions are not part of the parser model: the claims about the        *)
(* parser compare trees structurally.                                      *)
(***************************************************************************)

EOFToken == [kind |-> "EoF"]
SymTok(s) == [kind |-> "Symbol", sym |-> s]
IdentTok(s) == [kind |-> "Identifier", ident |-> s]
IntTok(n) == [kind |-> "Integer", int |-> n]
StrTok(s) == [kind |-> "String", string |-> s]
KwTok(s) == [kind |-> "Keyword", kword |-> s]

\* (tk as SymToken).sym: undefined (here "") when the token is no symbol
SymOf(tk) == IF tk.kind = "Symbol" THEN tk.sym ELSE ""

MATH_BINOPS == <<"+", "-", "/", "*", "%">>
CMP_BINOPS == <<">", "<", "==", "<=", ">=", "!=">>
LOGIC_BINOPS == <<"&&", "||">>
BINOPS == MATH_BINOPS \o CMP_BINOPS \o LOGIC_BINOPS

Range(s) == { s[i] : i \in DOMAIN s }

is_binop(v) == v \in Range(BINOPS)

binops_precedence ==
  << {"&&", "||"},
     {"%"},
     {">", "<", "==", "<=", ">=", "!="},
     {"-", "+"},
     {"*", "/"} >>

\* findIndex over binops_precedence (here 1-based)
get_binop_precedence(op) ==
  CHOOSE i \in DOMAIN binops_precedence : op \in binops_precedence[i]

(***************************************************************************)
(* The lexer as the parser sees it: next(), peek(), get_token() over the   *)
(* token stream; cur is the number of tokens consumed so far and EOF is    *)
(* returned past the end.                                                  *)
(***************************************************************************)
TokAt(toks, i) == IF i >= 1 /\ i <= Len(toks) THEN toks[i] ELSE EOFToken
PeekTok(toks, cur) == TokAt(toks, cur + 1)
Advance(toks, cur) == IF cur < Len(toks) + 1 THEN cur + 1 ELSE cur
GetToken(toks, cur) == TokAt(toks, cur)

\* expect_symbol_next: consumes one token; TRUE means "error"
expect_symbol_next(toks, cur, symbols) ==
  LET tk == PeekTok(toks, cur)
  IN  IF tk.kind # "Symbol" THEN TRUE
      ELSE IF symbols # {} THEN tk.sym \notin symbols
      ELSE FALSE

Ok(n, c) == [node |-> n, cur |-> c]
Fail(c) == [node |-> Null, cur |-> c]

IdentNode(s) == [kind |-> "idnt", ident |-> s]
IntLit(n) == [kind |-> "lit", type |-> "int", value |-> n]
StrLit(s) == [kind |-> "lit", type |-> "str", value |-> s]
BinopNode(op, l, r) == [kind |-> "binop", op |-> op, lhs |-> l, rhs |-> r]
FnCallNode(name, args) == [kind |-> "fncal", name |-> name, args |-> args]
PipeNode(val, next) == [kind |-> "pop", val |-> val, next |-> next]
ExprNode(item) == [kind |-> "expr", item |-> item]

RECURSIVE parse_expr(_, _)
RECURSIVE parse_binop(_, _, _)
RECURSIVE parse_pipe_op(_, _, _)
RECURSIVE parse_fn_call_loop(_, _, _, _)

\* the argument loop of parse_fn_call; tk is the loop variable
parse_fn_call_loop(toks, cur, tk, args) ==
  IF tk.kind = "EoF" THEN [node |-> Null, cur |-> cur, args |-> args, eof |-> TRUE]
  ELSE IF tk.kind = "Symbol" /\ tk.sym = ")"
       THEN [node |-> Null, cur |-> cur, args |-> args, eof |-> FALSE]
  ELSE LET r == parse_expr(toks, cur)
       IN  IF r.node = Null
           THEN [node |-> Null, cur |-> r.cur, args |-> args, eof |-> TRUE]
           ELSE IF expect_symbol_next(toks, r.cur, {")", ","})
           THEN [node |-> Null, cur |-> Advance(toks, r.cur), args |-> args, eof |-> TRUE]
           ELSE parse_fn_call_loop(toks, Advance(toks, r.cur),
                                   GetToken(toks, Advance(toks, r.cur)),
                                   Append(args, r.node))

parse_fn_call(toks, cur, ident) ==
  IF expect_symbol_next(toks, cur, {"("}) THEN Fail(Advance(toks, cur))
  ELSE LET c1 == Advance(toks, cur)
           l == parse_fn_call_loop(toks, c1, PeekTok(toks, c1), <<>>)
       IN  IF l.eof THEN Fail(l.cur)
           ELSE Ok(FnCallNode(ident.ident, l.args), l.cur)

parse_expr(toks, cur) ==
  LET tk == PeekTok(toks, cur)
      c1 == Advance(toks, cur)
      pk == PeekTok(toks, c1)
  IN
  IF tk.kind = "EoF" THEN Fail(c1)
  ELSE IF tk.kind = "Keyword" THEN Fail(c1)
  ELSE IF tk.kind = "String" THEN
    IF SymOf(pk) = "|>" THEN parse_pipe_op(toks, c1, StrLit(tk.string))
    ELSE Ok(StrLit(tk.string), c1)
  ELSE IF tk.kind = "Identifier" /\ SymOf(pk) = "(" THEN
    LET r == parse_fn_call(toks, c1, IdentNode(tk.ident))
    IN  IF r.node = Null THEN r
        ELSE IF SymOf(PeekTok(toks, r.cur)) = "|>" THEN parse_pipe_op(toks, r.cur, r.node)
        ELSE IF is_binop(SymOf(PeekTok(toks, r.cur))) THEN parse_binop(toks, r.cur, r.node)
        ELSE r
  ELSE IF tk.kind \in {"Integer", "Identifier"} THEN
    LET lhs == IF tk.kind = "Integer" THEN IntLit(tk.int) ELSE IdentNode(tk.ident)
    IN  IF pk.kind # "Symbol" THEN Ok(lhs, c1)
        ELSE IF pk.sym = "|>" THEN parse_pipe_op(toks, c1, lhs)
        ELSE IF ~is_binop(pk.sym) THEN Ok(lhs, c1)
        ELSE parse_binop(toks, c1, lhs)
  ELSE IF tk.sym = "\"" THEN Fail(c1)
  ELSE IF tk.sym = "(" THEN
    LET r == parse_expr(toks, c1)
        c2 == Advance(toks, r.cur)
        grouped == ExprNode(r.node)
    IN  IF expect_symbol_next(toks, r.cur, {")"}) THEN Fail(c2)
        ELSE IF SymOf(PeekTok(toks, c2)) = "|>" THEN parse_pipe_op(toks, c2, grouped)
        ELSE Ok(grouped, c2)
  ELSE Fail(c1)

\* the rotation test of parse_binop: rhs is a Binop of strictly lower precedence
RotatesMutant(op, rhs) ==
  rhs.kind = "binop" /\ get_binop_precedence(rhs.op) > get_binop_precedence(op)
Rotates(op, rhs) ==
  rhs.kind = "binop" /\ get_binop_precedence(rhs.op) < get_binop_precedence(op)

parse_binop(toks, cur, lhs) ==
  IF expect_symbol_next(toks, cur, Range(BINOPS)) THEN Fail(Advance(toks, cur))
  ELSE
    LET c1 == Advance(toks, cur)
        op == SymOf(GetToken(toks, c1))
        r == parse_expr(toks, c1)
        \* a PipeOp on the right is replaced by its first value
        rhs == IF r.node.kind = "pop" THEN r.node.val ELSE r.node
    IN  IF r.node = Null THEN r
        ELSE IF rhs.kind \notin {"lit", "idnt", "binop", "fncal"} THEN Fail(r.cur)
        ELSE IF Rotates(op, rhs)
             THEN Ok([rhs EXCEPT !.lhs = BinopNode(op, lhs, rhs.lhs)], r.cur)
             ELSE Ok(BinopNode(op, lhs, rhs), r.cur)

parse_pipe_op(toks, cur, start) ==
  IF expect_symbol_next(toks, cur, {"|>"}) THEN Fail(Advance(toks, cur))
  ELSE
    LET r == parse_expr(toks, Advance(toks, cur))
    IN  IF r.node = Null THEN r
        ELSE IF r.node.kind \notin {"idnt", "fncal", "pop"} THEN Fail(r.cur)
        ELSE IF r.node.kind = "pop" THEN Ok(PipeNode(start, r.node), r.cur)
        ELSE Ok(PipeNode(start, PipeNode(r.node, Null)), r.cur)

(***************************************************************************)
(* Pipe desugaring (pipe_node_to_list, pipe_node_to_fn_call_node)          *)
(***************************************************************************)
RECURSIVE pipe_node_to_list(_)
pipe_node_to_list(head) ==
  IF head = Null THEN <<>> ELSE <<head>> \o pipe_node_to_list(head.next)

\* args: [...val.args, prv]
PipeCallArgsMutant(args, prv) == <<prv>> \o args
PipeCallArgs(args, prv) == Append(args, prv)

\* the body of the for loop, from the second node on; Null when it returns null
RECURSIVE pipe_fold(_, _)
pipe_fold(node, prv) ==
  IF node = Null THEN prv
  ELSE LET val == node.val
       IN  IF val.kind # "fncal" /\ val.kind # "idnt" THEN Null
           ELSE IF val.kind = "idnt"
                THEN pipe_fold(node.next, FnCallNode(val.ident, <<prv>>))
                ELSE pipe_fold(node.next, FnCallNode(val.name, PipeCallArgs(val.args, prv)))

pipe_node_to_fn_call_node(head) ==
  IF head.next = Null THEN Null
  ELSE LET prv == pipe_fold(head.next, head.val)
       IN  IF prv.kind # "fncal" THEN Null ELSE prv

(***************************************************************************)
(* Parser inputs: binary-operator chains  a op b op c ...  and pipe chains *)
(* v0 |> t1 |> ... |> tN, as the token streams the lexer produces.         *)
(***************************************************************************)
OperandNames == <<"a", "b", "c", "d", "e", "g">>

RECURSIVE BinopChains(_)
\* all chains of n operands: a op1 b op2 c ...
BinopChains(n) ==
  IF n = 1 THEN { <<IdentTok(OperandNames[1])>> }
  ELSE { c \o <<SymTok(op), IdentTok(OperandNames[n])>> :
           c \in BinopChains(n - 1), op \in Range(BINOPS) }

PipeHeads == { <<IdentTok("a")>>, <<IntTok(5)>>, <<StrTok("s")>> }

PipeTargets ==
  { <<IdentTok("f")>>,
    <<IdentTok("g"), SymTok("("), IdentTok("x"), SymTok(")")>>,
    <<IdentTok("h"), SymTok("("), IdentTok("x"), SymTok(","), IntTok(1), SymTok(")")>>,
    <<IntTok(7)>> }

RECURSIVE PipeTails(_)
\* n targets, each behind a |>
PipeTails(n) ==
  IF n = 0 THEN { <<>> }
  ELSE { t \o <<SymTok("|>")>> \o g : t \in PipeTails(n - 1), g \in PipeTargets }

PipeChains == { h \o t : h \in PipeHeads,
                         t \in UNION { PipeTails(n) : n \in 1..MaxPipe } }

\* a binary operator whose right operand is piped: a op b |> target
PipedOperands ==
  { <<IdentTok("a"), SymTok(op), IdentTok("b")>> \o t :
      op \in {"+", "*", "=="}, t \in PipeTails(1) }

\* a binary operator with a parenthesised operand: a op (b op c), (a op b) op c
GroupedOperands ==
  UNION { { <<IdentTok("a"), SymTok(opA), SymTok("("), IdentTok("b"), SymTok(opB),
              IdentTok("c"), SymTok(")")>>,
            <<SymTok("("), IdentTok("a"), SymTok(opA), IdentTok("b"), SymTok(")"),
              SymTok(opB), IdentTok("c")>> } :
          opA \in {"+", "*"}, opB \in {"+", "*"} }

\* every expression is followed by the statement's semicolon
ParserInputs ==
  { c \o <<SymTok(";")>> :
      c \in UNION { BinopChains(n) : n \in 3..MaxOperands } \cup PipeChains
               \cup PipedOperands \cup GroupedOperands }

(***************************************************************************)
(* The parser component                                                    *)
(***************************************************************************)
InitParser ==
  /\ src \in ParserInputs
  /\ ast = Null
  /\ call = Null
  /\ pcur = 0
  /\ ppc = "start"
  /\ OthersIdle("parser")

\* parser.parse_expr() on a fresh lexer over src
ParseExpr ==
  /\ ppc = "start"
  /\ LET r == parse_expr(src, 0)
     IN  /\ ast' = r.node
         /\ pcur' = r.cur
  /\ ppc' = "parsed"
  /\ UNCHANGED <<src, call>>
  /\ Frame("parser")

\* pipe_node_to_fn_call_node on the PipeOp the parser returned
Desugar ==
  /\ ppc = "parsed"
  /\ ast.kind = "pop"
  /\ call' = pipe_node_to_fn_call_node(ast)
  /\ ppc' = "desugared"
  /\ UNCHANGED <<src, ast, pcur>>
  /\ Frame("parser")

NextParser == ParseExpr \/ Desugar

SpecParser == InitParser /\ [][NextParser]_vars

(***************************************************************************)
(* Claims about the parser                                                 *)
(***************************************************************************)
\* the precedence classes as the specification lists them, lowest first
ClaimClass(op) ==
  IF op \in {"&&", "||"} THEN 1
  ELSE IF op = "%" THEN 2
  ELSE IF op \in {">", "<", "==", "<=", ">=", "!="} THEN 3
  ELSE IF op \in {"+", "-"} THEN 4
  ELSE 5

\* src is  a opA b opB c ;
IsChain3 ==
  /\ Len(src) = 6
  /\ is_binop(SymOf(src[2]))
  /\ is_binop(SymOf(src[4]))

LeftTree(opA, opB) ==
  BinopNode(opB, BinopNode(opA, IdentNode("a"), IdentNode("b")), IdentNode("c"))
RightTree(opA, opB) ==
  BinopNode(opA, IdentNode("a"), BinopNode(opB, IdentNode("b"), IdentNode("c")))

\* C1: for opA, opB of different precedence classes, a opA b opB c parses to
\* the tree whose root is the operator of the lower class and whose inner
\* Binop is the operator of the higher class, whichever comes first.
C1_HigherClassBindsTighter ==
  (ppc = "parsed" /\ IsChain3 /\ ClaimClass(src[2].sym) # ClaimClass(src[4].sym)) =>
    IF ClaimClass(src[2].sym) > ClaimClass(src[4].sym)
    THEN ast = LeftTree(src[2].sym, src[4].sym)
    ELSE ast = RightTree(src[2].sym, src[4].sym)

\* a * b + c has been parsed and the rotation made + the root
C1_Witness ==
  /\ ppc = "parsed"
  /\ src = <<IdentTok("a"), SymTok("*"), IdentTok("b"), SymTok("+"), IdentTok("c"), SymTok(";")>>
  /\ ast = LeftTree("*", "+")

\* C2: for opA, opB of the same precedence class, a opA b opB c parses to the
\* left-associative tree Binop(opB, Binop(opA, a, b), c).
C2_SameClassLeftAssociative ==
  (ppc = "parsed" /\ IsChain3 /\ ClaimClass(src[2].sym) = ClaimClass(src[4].sym)) =>
    ast = LeftTree(src[2].sym, src[4].sym)

\* the values of a pipe chain, in order
PipeVals(head) ==
  LET l == pipe_node_to_list(head) IN [i \in 1..Len(l) |-> l[i].val]

RECURSIVE FoldCalls(_, _)
\* the left fold of the specification over the first k values
FoldCalls(vals, k) ==
  IF k = 1 THEN vals[1]
  ELSE LET prev == FoldCalls(vals, k - 1)
           v == vals[k]
       IN  IF v.kind = "idnt" THEN FnCallNode(v.ident, <<prev>>)
           ELSE FnCallNode(v.name, v.args \o <<prev>>)

ValidTargets(vals) ==
  \A i \in 2..Len(vals) : vals[i].kind \in {"idnt", "fncal"}

\* C3: for a pipe chain v0 |> v1 |> ... |> vN (N >= 1) whose v1..vN are Idents
\* or FuncCalls, pipe_node_to_fn_call_node returns the left fold (an Ident vk
\* gives Call(vk, [prev]), a FuncCall gives Call(vk, args ++ [prev])); a |> g(x)
\* desugars to the node that g(x, a) parses to.
C3_PipeDesugarIsLeftFold ==
  (ppc = "desugared" /\ ValidTargets(PipeVals(ast))) =>
    /\ Len(PipeVals(ast)) >= 2
    /\ call = FoldCalls(PipeVals(ast), Len(PipeVals(ast)))
    /\ (src = <<IdentTok("a"), SymTok("|>"), IdentTok("g"), SymTok("("), IdentTok("x"),
                SymTok(")"), SymTok(";")>>
          => call = parse_expr(<<IdentTok("g"), SymTok("("), IdentTok("x"), SymTok(","),
                                 IdentTok("a"), SymTok(")"), SymTok(";")>>, 0).node)

\* a two-step chain ending in a call with arguments has been desugared
C3_Witness ==
  /\ ppc = "desugared"
  /\ Len(PipeVals(ast)) = 3
  /\ ValidTargets(PipeVals(ast))
  /\ call.kind = "fncal"
  /\ Len(call.args) = 3

\* a literal stands right behind a |>
LiteralTargetIn(toks) ==
  \E i \in 1..(Len(toks) - 1) :
    toks[i] = SymTok("|>") /\ toks[i + 1].kind \in {"Integer", "String"}

\* C19: in every PipeOp chain parse_expr returns, every element after the
\* first is an Ident or a FuncCall; when an element behind a |> is of
\* another kind (the literal in a |> 5 |> f) the parser returns null.
C19_PipeTargetsAreCallable ==
  ppc # "start" =>
    /\ (ast.kind = "pop" => ValidTargets(PipeVals(ast)))
    /\ (LiteralTargetIn(src) => ast = Null)


RECURSIVE WellGrouped(_)
\* no Binop of the tree has a Binop child of strictly lower precedence
WellGrouped(n) ==
  IF n.kind # "binop" THEN TRUE
  ELSE /\ n.lhs.kind = "binop" =>
            get_binop_precedence(n.lhs.op) >= get_binop_precedence(n.op)
       /\ n.rhs.kind = "binop" =>
            get_binop_precedence(n.rhs.op) >= get_binop_precedence(n.op)
       /\ WellGrouped(n.lhs)
       /\ WellGrouped(n.rhs)

\* a * b + c == d;
ExampleChain ==
  <<IdentTok("a"), SymTok("*"), IdentTok("b"), SymTok("+"), IdentTok("c"),
    SymTok("=="), IdentTok("d"), SymTok(";")>>

\* C25: in the tree parse_expr returns for an unparenthesised chain of
\* three or more operands no Binop has a Binop child whose operator is of
\* strictly lower precedence than its own; a * b + c == d is grouped as
\* ((a * b) + c) == d.
C25_NoLowerPrecedenceChild ==
  (ppc = "parsed" /\ ast.kind = "binop") =>
    /\ WellGrouped(ast)
    /\ src = ExampleChain =>
         ast = BinopNode("==",
                 BinopNode("+", BinopNode("*", IdentNode("a"), IdentNode("b")),
                           IdentNode("c")),
                 IdentNode("d"))

\* the token a node starts with
HeadTok(n) ==
  CASE n.kind = "idnt" -> IdentTok(n.ident)
    [] n.kind = "fncal" -> IdentTok(n.name)
    [] n.kind = "lit" /\ n.type = "int" -> IntTok(n.value)
    [] n.kind = "lit" /\ n.type = "str" -> StrTok(n.value)
    [] OTHER -> EOFToken

RECURSIVE PipeTargetsOf(_)
\* the first tokens of the targets of all PipeOp chains in a tree
PipeTargetsOf(n) ==
  CASE n.kind = "pop" ->
         PipeTargetsOf(n.val) \cup
           (IF n.next = Null THEN {}
            ELSE {HeadTok(n.next.val)} \cup PipeTargetsOf(n.next))
    [] n.kind = "binop" -> PipeTargetsOf(n.lhs) \cup PipeTargetsOf(n.rhs)
    [] n.kind = "expr" -> PipeTargetsOf(n.item)
    [] n.kind = "fncal" -> UNION { PipeTargetsOf(n.args[i]) : i \in DOMAIN n.args }
    [] OTHER -> {}

\* C26: parse_expr never silently drops a pipe: every |> target consumed
\* from the token stream (as in a + b |> f) is the target of a PipeOp of
\* the returned tree, unless the parser returns null.
C26_NoPipeDropped ==
  (ppc = "parsed" /\ ast # Null) =>
    \A i \in 1..(pcur - 1) :
      src[i] = SymTok("|>") => src[i + 1] \in PipeTargetsOf(ast)

\* the same for the expressions without a binary operator
NoPipeDroppedWithoutBinop ==
  (ppc = "parsed" /\ ast # Null /\ \A i \in DOMAIN src : ~is_binop(SymOf(src[i]))) =>
    \A i \in 1..(pcur - 1) :
      src[i] = SymTok("|>") => src[i + 1] \in PipeTargetsOf(ast)

\* a opA (b opB c);
GroupedRight(opA, opB) ==
  <<IdentTok("a"), SymTok(opA), SymTok("("), IdentTok("b"), SymTok(opB),
    IdentTok("c"), SymTok(")"), SymTok(";")>>

\* (a opA b) opB c;
GroupedLeft(opA, opB) ==
  <<SymTok("("), IdentTok("a"), SymTok(opA), IdentTok("b"), SymTok(")"),
    SymTok(opB), IdentTok("c"), SymTok(";")>>

\* C27: parse_expr accepts a parenthesised expression as either operand of
\* a binary operator: a * (b + c) parses to Binop(*, a, Expr(Binop(+, b, c)))
\* and (a + b) * c to Binop(*, Expr(Binop(+, a, b)), c).
C27_GroupedOperandAccepted ==
  ppc = "parsed" =>
    \A opA \in {"+", "*"}, opB \in {"+", "*"} :
      /\ src = GroupedRight(opA, opB) =>
           ast = BinopNode(opA, IdentNode("a"),
                           ExprNode(BinopNode(opB, IdentNode("b"), IdentNode("c"))))
      /\ src = GroupedLeft(opA, opB) =>
           ast = BinopNode(opB,
                           ExprNode(BinopNode(opA, IdentNode("a"), IdentNode("b"))),
                           IdentNode("c"))

\* what the parser returns for a * (b + c) and for (a + b) * c
GroupedOperandOutcome ==
  ppc = "parsed" =>
    /\ src = GroupedRight("*", "+") => ast = Null
    /\ src = GroupedLeft("+", "*") =>
         (ast = ExprNode(BinopNode("+", IdentNode("a"), IdentNode("b"))) /\ pcur = 5)
(***************************************************************************)
(* parse_statement: the variable declaration.  A result is the node (Null  *)
(* for null), the tokens consumed and whether the logger was given a       *)
(* message.                                                                *)
(***************************************************************************)
Parsed(n, c, e) == [node |-> n, cur |-> c, err |-> e]
VarDecl(name, type, init) ==
  [kind |-> "vardcl", name |-> name, type |-> type, init |-> init]
TypeName(name, infer_pos) == [name |-> name, infer_pos |-> infer_pos]

\* expect_ident: consumes one token; TRUE means "error"
expect_ident(toks, cur) == PeekTok(toks, cur).kind # "Identifier"

\* the closing semicolon and the returned node
let_close(toks, cur, name, type, init) ==
  IF expect_symbol_next(toks, cur, {";"}) THEN Parsed(Null, Advance(toks, cur), TRUE)
  ELSE Parsed(VarDecl(name, type, init), Advance(toks, cur), FALSE)

\* the type name a literal initializer gives to an undeclared type
InferredName(tname, expr) ==
  IF tname = "()" /\ expr.kind = "lit"
  THEN IF expr.type = "str" THEN "string" ELSE "isz"
  ELSE tname

\* after the optional type name: '=' and the initializer
let_init(toks, cur, name, tname, ipos) ==
  IF expect_symbol_next(toks, cur, {"="}) THEN Parsed(Null, Advance(toks, cur), TRUE)
  ELSE LET Init(r) ==
             IF r.node = Null THEN Parsed(Null, r.cur, TRUE)
             ELSE let_close(toks, r.cur, name,
                            TypeName(InferredName(tname, r.node),
                                     IF ipos = "null" THEN "init" ELSE ipos),
                            r.node)
       IN  Init(parse_expr(toks, Advance(toks, cur)))

\* after ':': the optional type name
let_type(toks, cur, name) ==
  LET Typed(pk) ==
        IF pk.kind \notin {"Symbol", "Identifier"} THEN Parsed(Null, cur, TRUE)
        ELSE IF pk.kind = "Identifier"
             THEN let_init(toks, Advance(toks, cur), name, pk.ident, "type")
        ELSE let_init(toks, cur, name, "()", "null")
  IN  Typed(PeekTok(toks, cur))

\* parse_statement with the keyword let ahead
parse_statement(toks, cur) ==
  LET Named(c1, c2, c3) ==
        IF expect_ident(toks, c1) THEN Parsed(Null, c2, TRUE)
        ELSE IF expect_symbol_next(toks, c2, {";", ":"}) THEN Parsed(Null, c3, TRUE)
        ELSE IF SymOf(GetToken(toks, c3)) = ":"
             THEN let_type(toks, c3, GetToken(toks, c2).ident)
        ELSE let_close(toks, c3, GetToken(toks, c2).ident, TypeName("()", "null"), Null)
  IN  Named(Advance(toks, cur), Advance(toks, Advance(toks, cur)),
            Advance(toks, Advance(toks, Advance(toks, cur))))

\* the statements: let, a name, then ':', a type name, '=' with an
\* initializer and ';', each present or not
LetNames == { <<IdentTok("x")>>, <<IntTok(5)>> }
LetColons == { <<>>, <<SymTok(":")>> }
LetTypes == { <<>>, <<IdentTok("si32")>>, <<IdentTok("string")>> }
LetInits ==
  { <<>>, <<SymTok("=")>>,
    <<SymTok("="), IntTok(7)>>, <<SymTok("="), StrTok("s")>>,
    <<SymTok("="), IdentTok("a"), SymTok("+"), IntTok(1)>> }
LetEnds == { <<>>, <<SymTok(";")>>, <<SymTok(";"), SymTok(";")>> }
LetStatements ==
  { <<KwTok("let")>> \o n \o c \o t \o i \o e :
      n \in LetNames, c \in LetColons, t \in LetTypes, i \in LetInits, e \in LetEnds }

InitStmt ==
  /\ vsrc \in LetStatements
  /\ vnode = Null
  /\ vcur = 0
  /\ verr = FALSE
  /\ vpc = "start"
  /\ OthersIdle("stmt")

\* parser.parse_statement() on a fresh lexer over vsrc
ParseStatement ==
  /\ vpc = "start"
  /\ LET Returned(r) ==
           /\ vnode' = r.node
           /\ vcur' = r.cur
           /\ verr' = r.err
     IN  Returned(parse_statement(vsrc, 0))
  /\ vpc' = "parsed"
  /\ UNCHANGED vsrc
  /\ Frame("stmt")

NextStmt == ParseStatement

SpecStmt == InitStmt /\ [][NextStmt]_vars

(***************************************************************************)
(* Claims about parse_statement                                            *)
(***************************************************************************)
\* let X: T;
TypedNoInit(toks) ==
  /\ Len(toks) = 5
  /\ toks[1] = KwTok("let")
  /\ toks[2].kind = "Identifier"
  /\ toks[3] = SymTok(":")
  /\ toks[4].kind = "Identifier"
  /\ toks[5] = SymTok(";")

\* C18: parse_statement on `let X: T;` returns a VarDecl of name X with the
\* declared type name T and no init, and reports no error.
C18_TypedDeclarationWithoutInit ==
  (vpc = "parsed" /\ TypedNoInit(vsrc)) =>
    /\ ~verr
    /\ vnode.kind = "vardcl"
    /\ vnode.name = vsrc[2].ident
    /\ vnode.type.name = vsrc[4].ident
    /\ vnode.init = Null

(***************************************************************************)
(* The lexer (lexer.ts, SimpLexer).  A character is a string of length 1;  *)
(* the input is a sequence of characters indexed from 0 as in the source.  *)
(***************************************************************************)
\* the character that opens a string literal (a TLA+ string cannot hold it)
BackTick == "BACKTICK"

Keywords == {"fn", "if", "return", "let"}
is_keyword(s) == s \in Keywords

is_whitespace(ch) == ch \in {" ", "\t", "\n", "\r"}

ALPHABET_CHARS ==
  <<"a", "b", "c", "d", "e", "f", "g", "h", "i", "j", "k", "l", "m",
    "n", "o", "p", "q", "r", "s", "t", "u", "v", "w", "x", "y", "z">>
NUMERIC_CHARS == <<"0", "1", "2", "3", "4", "5", "6", "7", "8", "9">>

\* the inputs of the model hold no upper-case letter, so toLowerCase is
\* the identity on them
is_alpha_ch(ch) == ch \in Range(ALPHABET_CHARS)
is_num_ch(ch) == ch \in Range(NUMERIC_CHARS)
is_alphanum_ch(ch) == is_alpha_ch(ch) \/ is_num_ch(ch)
is_valid_ident_ch(ch) == is_alphanum_ch(ch) \/ ch = "_"

\* buf[i]
BufAt(b, i) == IF i >= 0 /\ i < Len(b) THEN b[i + 1] ELSE Undef

\* the value of a decimal digit
DigitValue(ch) == (CHOOSE i \in DOMAIN NUMERIC_CHARS : NUMERIC_CHARS[i] = ch) - 1

RECURSIVE parseInt(_)
\* Number.parseInt on a non-empty sequence of decimal digits
parseInt(digits) ==
  IF digits = <<>> THEN 0
  ELSE 10 * parseInt(SubSeq(digits, 1, Len(digits) - 1))
         + DigitValue(digits[Len(digits)])

RECURSIVE Join(_)
\* the string made of a sequence of characters
Join(chars) == IF chars = <<>> THEN "" ELSE chars[1] \o Join(Tail(chars))

\* what one step of next() hands back: the token, or the entry into the
\* string loop, with the cursor and position reached
LexRet(t, cur, ln, col) ==
  [mode |-> "token", tok |-> t, cursor |-> cur, line |-> ln, column |-> col]
LexStr(cur, ln, col) ==
  [mode |-> "string", tok |-> Null, cursor |-> cur, line |-> ln, column |-> col]

\* this.cursor = buf.length, when the loop reads past the end
EofCursorMutant(b) == -1
EofCursor(b) == Len(b)

RECURSIVE skip_whitespace(_, _, _, _)
\* the loop  while (this.cursor < buf.length)  at the head of next()
skip_whitespace(b, cur, ln, col) ==
  IF ~(cur < Len(b))
  THEN [eof |-> FALSE, cursor |-> cur, line |-> ln, column |-> col]
  ELSE LET ch == BufAt(b, cur + 1)
       IN  IF ch = Undef
           THEN [eof |-> TRUE, cursor |-> EofCursor(b), line |-> ln, column |-> col]
           ELSE IF is_whitespace(ch)
           THEN skip_whitespace(b, cur + 1,
                                IF ch = "\n" THEN ln + 1 ELSE ln,
                                IF ch = "\n" THEN 0 ELSE col + 1)
           ELSE [eof |-> FALSE, cursor |-> cur + 1, line |-> ln,
                 column |-> col + 1]

RECURSIVE skip_comment(_, _, _, _)
\* while (ch && ch != '\n') { this.column++; ch = buf[++this.cursor]; }
skip_comment(b, cur, col, ch) ==
  IF ch # Undef /\ ch # "\n"
  THEN skip_comment(b, cur + 1, col + 1, BufAt(b, cur + 1))
  ELSE [cursor |-> cur, column |-> col, ch |-> ch]

RECURSIVE read_digits(_, _, _, _, _)
\* while (ch && is_num_ch(ch)) { str += ch; ch = buf[++this.cursor]; this.column++; }
read_digits(b, cur, col, ch, str) ==
  IF ch # Undef /\ is_num_ch(ch)
  THEN read_digits(b, cur + 1, col + 1, BufAt(b, cur + 1), Append(str, ch))
  ELSE [cursor |-> cur, column |-> col, str |-> str]

RECURSIVE read_ident(_, _, _, _, _)
\* while (ch && is_valid_ident_ch(ch)) { str += ch; ch = buf[++this.cursor]; this.column++; }
read_ident(b, cur, col, ch, str) ==
  IF ch # Undef /\ is_valid_ident_ch(ch)
  THEN read_ident(b, cur + 1, col + 1, BufAt(b, cur + 1), Append(str, ch))
  ELSE [cursor |-> cur, column |-> col, str |-> str]

\* the second characters that make a two-character symbol with ch
SecondChars(ch) ==
  CASE ch = "&" -> {"&"}
    [] ch = "=" -> {">", "="}
    [] ch = "!" -> {"="}
    [] ch = ">" -> {">", "="}
    [] ch = "<" -> {"<", "="}
    [] ch = "|" -> {"|", ">"}
    [] ch = "-" -> {">"}
    [] OTHER -> {}

\* the sign test of next(): a '-' followed by a digit makes ch that digit,
\* the cursor staying on the '-'
SignedStart(ch, nx) == IF ch = "-" /\ is_num_ch(nx) THEN nx ELSE ch

\* next() from the first character of a token on (c is its index): all
\* branches but comments and strings
lex_token(b, c, ln, col) ==
  LET ch == BufAt(b, c)
      nx == BufAt(b, c + 1)
  IN  IF nx \in SecondChars(ch)
      THEN LexRet(SymTok(ch \o nx), c + 1, ln, col + 1)
      ELSE LET negative == ch = "-" /\ is_num_ch(nx)
               ch2 == SignedStart(ch, nx)
           IN  IF is_num_ch(ch2)
               THEN LET r == read_digits(b, c, col, ch2, <<>>)
                        int == parseInt(r.str)
                    IN  LexRet(IntTok(IF negative THEN -int ELSE int),
                               r.cursor - 1, ln, r.column)
               ELSE IF is_valid_ident_ch(ch2)
               THEN LET r == read_ident(b, c, col, ch2, <<>>)
                        str == Join(r.str)
                    IN  LexRet(IF is_keyword(str) THEN KwTok(str)
                                                  ELSE IdentTok(str),
                               r.cursor - 1, ln, r.column)
               ELSE LexRet(SymTok(ch2), c, ln, col)

RECURSIVE next(_, _, _, _)
\* next(), up to the token it returns or to its entry into the string loop
next(b, cur, ln, col) ==
  IF cur >= Len(b) \/ Len(b) = 0
  THEN LexRet(EOFToken, cur, ln, col)
  ELSE LET ws == skip_whitespace(b, cur, ln, col)
           c == ws.cursor
           ch == BufAt(b, c)
       IN  IF ws.eof
           THEN LexRet(EOFToken, c, ws.line, ws.column)
           ELSE IF ch = "/" /\ BufAt(b, c + 1) = "/"
           THEN LET sc == skip_comment(b, c + 1, ws.column + 1, ch)
                IN  IF sc.ch = Undef
                    THEN LexRet(EOFToken, sc.cursor, ws.line, sc.column)
                    ELSE next(b, sc.cursor - 1, ws.line, sc.column)
           ELSE IF ch = BackTick
           THEN LexStr(c + 1, ws.line, ws.column)
           ELSE lex_token(b, c, ws.line, ws.column)

\* the characters an escape stands for
Unescape(ch) ==
  CASE ch = "n" -> "\n"
    [] ch = "r" -> "\r"
    [] ch = "t" -> "\t"
    [] OTHER -> ch

\* str += ch, where an undefined ch is appended as the text "undefined"
AppendCh(str, ch) == str \o ch

(***************************************************************************)
(* Lexer inputs: every sequence of at most MaxBuf characters of            *)
(* LexAlphabet.                                                            *)
(***************************************************************************)
LexAlphabet == {"-", "1", "2", ">", " ", BackTick, "'", "\\", "a", "/", "\n"}

RECURSIVE SeqsUpTo(_, _)
SeqsUpTo(S, n) ==
  IF n = 0 THEN { <<>> }
  ELSE LET shorter == SeqsUpTo(S, n - 1)
       IN  shorter \cup { Append(s, x) : s \in shorter, x \in S }

LexInputs == SeqsUpTo(LexAlphabet, MaxBuf)

(***************************************************************************)
(* The lexer component.  A call of next() is one step, except inside a     *)
(* string literal, where every iteration of the loop is a step.            *)
(***************************************************************************)
InitLexer ==
  /\ buf \in LexInputs
  /\ cursor = -1
  /\ line = 1
  /\ column = 0
  /\ tok = Null
  /\ lpc = "ready"
  /\ lstr = ""
  /\ lch = Undef
  /\ lpk = Null
  /\ OthersIdle("lexer")

\* a call of next(): to the token it returns, or into the string loop
LexNext ==
  /\ lpc = "ready"
  /\ LET r == next(buf, cursor, line, column)
     IN  /\ cursor' = r.cursor
         /\ line' = r.line
         /\ column' = r.column
         /\ IF r.mode = "token"
            THEN /\ tok' = r.tok
                 /\ lpk' = Null
                 /\ UNCHANGED <<lpc, lstr, lch>>
            ELSE /\ lpc' = "string"
                 /\ lstr' = ""
                 /\ lch' = BufAt(buf, r.cursor)
                 /\ UNCHANGED <<tok, lpk>>
  /\ UNCHANGED buf
  /\ Frame("lexer")

\* the reads past the end of the input are told apart up to MaxOver of
\* them: from then on ch is undefined at every index, and the state of the
\* loop stands for all the later ones
Saturated == cursor >= Len(buf) + MaxOver

\* one iteration of  while (ch != "'")
StrStep ==
  /\ lpc = "string"
  /\ lch # "'"
  /\ LET escaping == lch = "\\"
         c1 == IF escaping THEN cursor + 1 ELSE cursor
         ch1 == IF escaping THEN BufAt(buf, c1) ELSE lch
     IN  IF Saturated
         THEN UNCHANGED <<cursor, tok, lpc, lstr, lch, lpk>>
         ELSE IF escaping /\ ch1 = Undef
         THEN \* break: the token is returned
              /\ cursor' = c1
              /\ tok' = StrTok(lstr)
              /\ lpc' = "ready"
              /\ lstr' = ""
              /\ lch' = Undef
              /\ lpk' = Null
         ELSE /\ lstr' = AppendCh(lstr, IF escaping THEN Unescape(ch1) ELSE ch1)
              /\ cursor' = c1 + 1
              /\ lch' = BufAt(buf, c1 + 1)
              /\ UNCHANGED <<tok, lpc, lpk>>
  /\ UNCHANGED <<buf, line, column>>
  /\ Frame("lexer")

\* the loop ends on the closing quote and the token is returned
StrReturn ==
  /\ lpc = "string"
  /\ lch = "'"
  /\ tok' = StrTok(lstr)
  /\ lpc' = "ready"
  /\ lstr' = ""
  /\ lch' = Undef
  /\ lpk' = Null
  /\ UNCHANGED <<buf, cursor, line, column>>
  /\ Frame("lexer")

RECURSIVE str_loop(_, _, _, _)
\* the string loop of next() run to its end: the token it returns, or no
\* return when the loop runs on past the end of the input
str_loop(b, cur, str, ch) ==
  IF ch = "'" THEN [returns |-> TRUE, tok |-> StrTok(str)]
  ELSE IF cur >= Len(b) + MaxOver THEN [returns |-> FALSE, tok |-> Null]
  ELSE IF ch = "\\" /\ BufAt(b, cur + 1) = Undef
       THEN [returns |-> TRUE, tok |-> StrTok(str)]
  ELSE IF ch = "\\"
       THEN str_loop(b, cur + 2, AppendCh(str, Unescape(BufAt(b, cur + 1))),
                     BufAt(b, cur + 2))
  ELSE str_loop(b, cur + 1, AppendCh(str, ch), BufAt(b, cur + 1))

\* clone(): a new lexer over the same text with cursor, line and column
\* copied
clone(b, cur, ln, col) == [buf |-> b, cursor |-> cur, line |-> ln, column |-> col]

\* peek(): this.clone().next()
peek(b, cur, ln, col) ==
  LET Run(r) == IF r.mode = "token" THEN [returns |-> TRUE, tok |-> r.tok]
                ELSE str_loop(b, r.cursor, "", BufAt(b, r.cursor))
      OnCopy(copy) == Run(next(copy.buf, copy.cursor, copy.line, copy.column))
  IN  OnCopy(clone(b, cur, ln, col))

\* a call of peek(), once between two calls of next(); a call that does
\* not return leaves the caller waiting
Peek ==
  /\ lpc = "ready"
  /\ lpk = Null
  /\ LET Got(r) ==
           IF r.returns THEN lpk' = r.tok /\ lpc' = lpc
           ELSE lpk' = lpk /\ lpc' = "peeking"
     IN  Got(peek(buf, cursor, line, column))
  /\ UNCHANGED <<buf, cursor, line, column, tok, lstr, lch>>
  /\ Frame("lexer")

NextLexer == LexNext \/ StrStep \/ StrReturn \/ Peek

SpecLexer == InitLexer /\ [][NextLexer]_vars

\* a call of next() that has started keeps running
SpecLexerFair == SpecLexer /\ WF_vars(StrStep) /\ WF_vars(StrReturn)

(***************************************************************************)
(* Claims about the lexer                                                  *)
(***************************************************************************)
RECURSIVE DigitRun(_, _)
\* the maximal run of decimal digits of b that starts at index i
DigitRun(b, i) ==
  IF is_num_ch(BufAt(b, i)) THEN <<BufAt(b, i)>> \o DigitRun(b, i + 1) ELSE <<>>

\* index of the first character of the token the next call of next() reads
TokenStart == skip_whitespace(buf, cursor, line, column).cursor

\* the next token starts with a '-' that is immediately followed by a digit
NegativeIntAhead ==
  /\ lpc = "ready"
  /\ cursor < Len(buf)
  /\ ~skip_whitespace(buf, cursor, line, column).eof
  /\ BufAt(buf, TokenStart) = "-"
  /\ is_num_ch(BufAt(buf, TokenStart + 1))

\* the step is a call of peek()
PeekCalled == lpc = "ready" /\ lpk = Null /\ (lpk' # Null \/ lpc' = "peeking")

\* C6: for every maximal run of decimal digits D immediately preceded by
\* '-', next() returns one Integer token whose value is minus the decimal
\* value of D, and leaves the cursor on the last digit of D, so that the
\* following token starts at the first character after D.
C6_NegativeIntegerValue ==
  [][ (NegativeIntAhead /\ ~PeekCalled) =>
        LET D == DigitRun(buf, TokenStart + 1)
        IN  /\ tok' = IntTok(- parseInt(D))
            /\ cursor' = TokenStart + Len(D) ]_vars

RECURSIVE Closes(_, _)
\* the string loop, looking at index i, meets a closing quote
Closes(b, i) ==
  IF BufAt(b, i) = Undef THEN FALSE
  ELSE IF BufAt(b, i) = "'" THEN TRUE
  ELSE IF BufAt(b, i) = "\\" THEN Closes(b, i + 2)
  ELSE Closes(b, i + 1)

\* C7: for every finite input in which a string literal opened with a
\* backtick has no closing quote, next() terminates: it returns a String
\* token, with the cursor at the end of the input, so that the next call
\* returns EOF.
C7_UnterminatedStringTerminates ==
  (lpc = "string" /\ ~Closes(buf, cursor))
    ~> (lpc = "ready" /\ tok.kind = "String" /\ cursor >= Len(buf))


\* the step is the return of the call of next() that follows a peek()
NextReturnedAfterPeek == lpk # Null /\ lpk' = Null

\* C20: peek() is non-destructive: in every lexer state it returns a token
\* equal to the one the next call of next() returns, and it leaves the
\* cursor, the line, the column and the current token unchanged.
C20_PeekNonDestructive ==
  [][ /\ PeekCalled => /\ lpk' # Null
                       /\ UNCHANGED <<cursor, line, column, tok>>
      /\ NextReturnedAfterPeek => tok' = lpk ]_vars

\* the same, in the states from which peek() returns
PeekNonDestructiveWhereItReturns ==
  [][ /\ (PeekCalled /\ lpk' # Null) => UNCHANGED <<cursor, line, column, tok>>
      /\ NextReturnedAfterPeek => tok' = lpk ]_vars

\* C21: once next() has returned an EOF token, every later call of next()
\* or peek() on that lexer returns EOF as well (empty input, trailing
\* whitespace and a trailing comment without newline included).
C21_EofIsSticky ==
  [][ tok.kind = "EoF" =>
        /\ tok'.kind = "EoF"
        /\ lpc' = "ready"
        /\ (lpk' = Null \/ lpk'.kind = "EoF") ]_vars

\* after an EOF behind a trailing comment a peek() has returned EOF too
C21_Witness ==
  /\ tok.kind = "EoF"
  /\ lpk = EOFToken
  /\ Len(buf) >= 3
  /\ buf[Len(buf) - 1] = "/"
  /\ buf[Len(buf)] = "/"
(***************************************************************************)
(* The dynamic backend (javascript-codegen.ts).  Emitted text is a         *)
(* sequence of lexemes; indentation and line breaks are left out.          *)
(***************************************************************************)
FnDArgNode(name) == [kind |-> "fndclarg", name |-> name, type |-> "()"]
FnDeclNode(name, args, body) ==
  [kind |-> "fndcl", name |-> name, returns |-> "()", args |-> args,
   body |-> body]
KeywordNode(word, expr) == [kind |-> "kword", word |-> word, expr |-> expr]
VarDeclNode(name, init) == [kind |-> "vardcl", name |-> name, init |-> init]

\* the three things a call of node_to_code ends with
Code(lexemes) == [kind |-> "code", code |-> lexemes]
CodeError == [kind |-> "error"]
Thrown == [kind |-> "throw"]

RECURSIVE JoinWith(_, _)
\* codes.join(sep)
JoinWith(codes, sep) ==
  IF codes = <<>> THEN <<>>
  ELSE IF Len(codes) = 1 THEN codes[1]
  ELSE codes[1] \o sep \o JoinWith(Tail(codes), sep)

\* JSON.stringify of a string without characters to escape
JsonStringify(s) == "\"" \o s \o "\""

\* `${body_indent}while (true) {\n${b}\n${body_indent}}`
WhileTrueMutant(b) == b
WhileTrue(b) == <<"while (true)", "{">> \o b \o <<"}">>

\* `(yield* ${name}(${args}))`
YieldCall(name, args) == <<"(", "yield*", name, "(">> \o args \o <<")", ")">>

\* last_stmt.kind == 'fncal' && last_stmt.name == node.name
\*   && last_stmt.args.length == node.args.length
tailcalling(node) ==
  LET last_stmt == node.body[Len(node.body)]
  IN  /\ last_stmt.kind = "fncal"
      /\ last_stmt.name = node.name
      /\ Len(last_stmt.args) = Len(node.args)

RECURSIVE node_to_code(_)
RECURSIVE nodes_to_code(_)

\* node_to_code on each node of a list, stopping at the first that does
\* not yield code
nodes_to_code(nodes) ==
  IF nodes = <<>> THEN [kind |-> "codes", codes |-> <<>>]
  ELSE LET first == node_to_code(nodes[1])
       IN  IF first.kind # "code" THEN first
           ELSE LET rest == nodes_to_code(Tail(nodes))
                IN  IF rest.kind # "codes" THEN rest
                    ELSE [kind |-> "codes",
                          codes |-> <<first.code>> \o rest.codes]

\* the FuncDecl case of node_to_code
func_decl_to_code(node) ==
  LET args == nodes_to_code(node.args)
  IN  IF args.kind # "codes" THEN args
      ELSE IF node.body = <<>>
      THEN Thrown   \* last_stmt is undefined, last_stmt.kind throws
      ELSE LET n == Len(node.body)
               last_stmt == node.body[n]
               head == <<"function*", node.name, "(">>
                         \o JoinWith(args.codes, <<",">>) \o <<")", "{">>
           IN  IF tailcalling(node)
               THEN LET stmts == nodes_to_code(SubSeq(node.body, 1, n - 1))
                        vals == nodes_to_code(last_stmt.args)
                    IN  IF stmts.kind # "codes" THEN stmts
                        ELSE IF vals.kind # "codes" THEN vals
                        ELSE LET assigns ==
                                   [i \in 1..Len(node.args) |->
                                      <<node.args[i].name, "=">> \o vals.codes[i]]
                                 body == stmts.codes \o assigns
                             IN  Code(head
                                      \o WhileTrue(JoinWith(body, <<";">>) \o <<";">>)
                                      \o <<"}">>)
               ELSE LET stmts == nodes_to_code(node.body)
                    IN  IF stmts.kind # "codes" THEN stmts
                        ELSE Code(head \o JoinWith(stmts.codes, <<";">>)
                                       \o <<";", "}">>)

node_to_code(node) ==
  IF node = Null THEN Code(<<"null">>)
  ELSE CASE node.kind = "eof" -> Code(<<>>)
    [] node.kind = "idnt" -> Code(<<node.ident>>)
    [] node.kind = "fndclarg" -> Code(<<node.name>>)
    [] node.kind = "lit" ->
         IF node.type = "int" THEN Code(<<ToString(node.value)>>)
         ELSE Code(<<JsonStringify(node.value)>>)
    [] node.kind = "binop" ->
         LET lhs == node_to_code(node.lhs)
             rhs == node_to_code(node.rhs)
         IN  IF lhs.kind # "code" THEN lhs
             ELSE IF rhs.kind # "code" THEN rhs
             ELSE Code(lhs.code \o <<node.op>> \o rhs.code)
    [] node.kind = "kword" ->
         IF node.expr = Null THEN Code(<<node.word>>)
         ELSE LET expr == node_to_code(node.expr)
              IN  IF expr.kind # "code" THEN expr
                  ELSE Code(<<node.word>> \o expr.code)
    [] node.kind = "expr" ->
         LET expr == node_to_code(node.item)
         IN  IF expr.kind # "code" THEN expr
             ELSE IF node.item = Null THEN Code(<<"()">>)
             ELSE Code(<<"(">> \o expr.code \o <<")">>)
    [] node.kind = "vardcl" ->
         LET init == node_to_code(node.init)
         IN  IF init.kind # "code" THEN init
             ELSE Code(<<"let", node.name, "=">> \o init.code)
    [] node.kind = "fncal" ->
         LET args == nodes_to_code(node.args)
         IN  IF args.kind # "codes" THEN args
             ELSE Code(YieldCall(node.name, JoinWith(args.codes, <<",">>)))
    [] node.kind = "pop" ->
         LET fncall == pipe_node_to_fn_call_node(node)
         IN  IF fncall = Null THEN CodeError ELSE node_to_code(fncall)
    [] node.kind = "fndcl" -> func_decl_to_code(node)
    [] node.kind = "iffi" ->
         LET if_body == nodes_to_code(node.body)
             cond == node_to_code(node.cond)
             else_body == IF node.else = Null THEN [kind |-> "codes", codes |-> <<>>]
                          ELSE nodes_to_code(node.else)
         IN  IF if_body.kind # "codes" THEN if_body
             ELSE IF cond.kind # "code" THEN cond
             ELSE IF else_body.kind # "codes" THEN else_body
             ELSE Code(<<"if", "(">> \o cond.code \o <<")", "{">>
                       \o JoinWith(if_body.codes, <<";">>) \o <<"}">>
                       \o (IF node.else = Null THEN <<>>
                           ELSE <<"else", "{">>
                                  \o JoinWith(else_body.codes, <<";">>)
                                  \o <<"}">>))
    [] OTHER -> CodeError

(***************************************************************************)
(* Running the emitted loop.  The body of the loop is read back from the   *)
(* emitted text: the statements between the braces of  while (true) ,      *)
(* separated by ";".  A statement  p = e  assigns; a call of another       *)
(* function leaves the parameters, which are local, as they are.           *)
(***************************************************************************)
\* index of the first lexeme  while (true)
LoopStart(code) == CHOOSE i \in DOMAIN code : code[i] = "while (true)"

RECURSIVE SplitStmts(_, _)
\* the statements of a lexeme sequence, each ended by ";"
SplitStmts(code, acc) ==
  IF code = <<>> THEN <<>>
  ELSE IF code[1] = ";" THEN <<acc>> \o SplitStmts(Tail(code), <<>>)
  ELSE SplitStmts(Tail(code), Append(acc, code[1]))

\* the statements inside  while (true) { ... }  of an emitted function
LoopStmts(code) ==
  SplitStmts(SubSeq(code, LoopStart(code) + 2, Len(code) - 2), <<>>)

\* the integer a decimal lexeme denotes
IntOfLexeme(s) == CHOOSE n \in -99..99 : ToString(n) = s

ApplyOp(op, x, y) ==
  CASE op = "+" -> x + y
    [] op = "-" -> x - y
    [] op = "*" -> x * y

\* JavaScript's value of an emitted expression: a name, a number, or one
\* binary operation on two of those
JsAtom(lx, env) == IF lx \in DOMAIN env THEN env[lx] ELSE IntOfLexeme(lx)
EvalJs(code, env) ==
  IF Len(code) = 1 THEN JsAtom(code[1], env)
  ELSE ApplyOp(code[2], JsAtom(code[1], env), JsAtom(code[3], env))

\* JavaScript's execution of one emitted statement
ExecJs(stmt, env) ==
  IF Len(stmt) >= 3 /\ stmt[2] = "="
  THEN [env EXCEPT ![stmt[1]] = EvalJs(SubSeq(stmt, 3, Len(stmt)), env)]
  ELSE env

RECURSIVE EvalNode(_, _)
\* the value of an argument expression of the source program
EvalNode(node, env) ==
  CASE node.kind = "idnt" -> env[node.ident]
    [] node.kind = "lit" -> node.value
    [] node.kind = "binop" ->
         ApplyOp(node.op, EvalNode(node.lhs, env), EvalNode(node.rhs, env))

\* the values the tail call f(e1..en) passes when made with parameters env
TailCallValues(node, env) ==
  LET last_stmt == node.body[Len(node.body)]
  IN  [i \in 1..Len(last_stmt.args) |-> EvalNode(last_stmt.args[i], env)]

(***************************************************************************)
(* Inputs of the backend: functions f(a) and f(a, b) with at most MaxStmts *)
(* statements before the last one.                                         *)
(***************************************************************************)
JsParamLists == { <<FnDArgNode("a")>>, <<FnDArgNode("a"), FnDArgNode("b")>> }

\* expressions over the parameters
JsPureArgs(params) ==
  { IdentNode(params[i].name) : i \in DOMAIN params }
    \cup { IntLit(1), BinopNode("+", IdentNode("a"), IntLit(1)) }

\* the call f(p1..pn) of the function itself
SelfCall(params) ==
  FnCallNode("f", [i \in DOMAIN params |-> IdentNode(params[i].name)])

JsArgs(params) == JsPureArgs(params) \cup { SelfCall(params) }

JsArgLists(params) ==
  { args \in [DOMAIN params -> JsArgs(params)] : TRUE }

\* statements that may precede the last one
JsStmts(params) ==
  { FnCallNode("printf", <<StrLit("x")>>),
    SelfCall(params),
    FnDeclNode("g", <<FnDArgNode("x")>>,
               <<FnCallNode("g", <<IdentNode("x")>>)>>) }

\* last statements: the tail call, and statements that are no tail call
JsLastStmts(params) ==
  { FnCallNode("f", args) : args \in JsArgLists(params) }
    \cup { FnCallNode("g", <<IdentNode("a")>>),
           FnCallNode("f", <<>>),
           KeywordNode("return", IdentNode("a")) }

JsBodies(params) ==
  { pre \o <<last>> :
      pre \in SeqsUpTo(JsStmts(params), MaxStmts),
      last \in JsLastStmts(params) }
    \cup { <<>> }

JsInputs ==
  UNION { { FnDeclNode("f", params, body) : body \in JsBodies(params) } :
            params \in JsParamLists }

ParamNames(node) == { node.args[i].name : i \in DOMAIN node.args }

\* the emitted loop can be run in the model: its statements are calls of
\* other functions and assignments of expressions without calls
Runnable(node) ==
  /\ node.body # <<>>
  /\ tailcalling(node)
  /\ \A i \in 1..(Len(node.body) - 1) :
       node.body[i].kind = "fncal" /\ node.body[i].name # node.name
  /\ LET last_stmt == node.body[Len(node.body)]
     IN  \A i \in DOMAIN last_stmt.args : last_stmt.args[i].kind # "fncal"

(***************************************************************************)
(* The backend component                                                   *)
(***************************************************************************)
InitJs ==
  /\ jfn \in JsInputs
  /\ jout = Null
  /\ jenv = <<>>
  /\ jargs = <<>>
  /\ jip = 0
  /\ jiter = 0
  /\ jpc = "start"
  /\ OthersIdle("js")

\* node_to_code(jfn)
EmitFunc ==
  /\ jpc = "start"
  /\ jout' = node_to_code(jfn)
  /\ jpc' = "emitted"
  /\ UNCHANGED <<jfn, jenv, jargs, jip, jiter>>
  /\ Frame("js")

\* the emitted function is called: the loop is entered
JsEnter ==
  /\ jpc = "emitted"
  /\ jout.kind = "code"
  /\ Runnable(jfn)
  /\ \E env \in [ParamNames(jfn) -> 0..MaxVal] :
       /\ jenv' = env
       /\ jargs' = TailCallValues(jfn, env)
  /\ jip' = 1
  /\ jpc' = "running"
  /\ UNCHANGED <<jfn, jout, jiter>>
  /\ Frame("js")

\* one statement of the loop body
JsStmt ==
  /\ jpc = "running"
  /\ jip <= Len(LoopStmts(jout.code))
  /\ jenv' = ExecJs(LoopStmts(jout.code)[jip], jenv)
  /\ jip' = jip + 1
  /\ UNCHANGED <<jfn, jout, jargs, jiter, jpc>>
  /\ Frame("js")

\* the end of the body: while (true) starts the next iteration
JsLoopBack ==
  /\ jpc = "running"
  /\ jip > Len(LoopStmts(jout.code))
  /\ jiter < MaxIter
  /\ jiter' = jiter + 1
  /\ jip' = 1
  /\ jargs' = TailCallValues(jfn, jenv)
  /\ UNCHANGED <<jfn, jout, jenv, jpc>>
  /\ Frame("js")

NextJs == EmitFunc \/ JsEnter \/ JsStmt \/ JsLoopBack

SpecJs == InitJs /\ [][NextJs]_vars

(***************************************************************************)
(* Claims about the dynamic backend                                        *)
(***************************************************************************)
\* occurrences of a lexeme in emitted text
Occurrences(code, lx) == Cardinality({ i \in DOMAIN code : code[i] = lx })

\* calls of the function name in emitted text
CallsOf(code, name) ==
  Cardinality({ i \in DOMAIN code :
                  /\ i + 2 <= Len(code)
                  /\ code[i] = "yield*"
                  /\ code[i + 1] = name
                  /\ code[i + 2] = "(" })

RECURSIVE SelfCallsIn(_, _)
RECURSIVE SelfCallsInAll(_, _)
\* calls of the function name in a node of the source program
SelfCallsIn(node, name) ==
  CASE node.kind = "fncal" ->
         (IF node.name = name THEN 1 ELSE 0) + SelfCallsInAll(node.args, name)
    [] node.kind = "binop" ->
         SelfCallsIn(node.lhs, name) + SelfCallsIn(node.rhs, name)
    [] node.kind = "fndcl" -> SelfCallsInAll(node.body, name)
    [] node.kind = "kword" ->
         IF node.expr = Null THEN 0 ELSE SelfCallsIn(node.expr, name)
    [] OTHER -> 0
SelfCallsInAll(nodes, name) ==
  IF nodes = <<>> THEN 0
  ELSE SelfCallsIn(nodes[1], name) + SelfCallsInAll(Tail(nodes), name)

\* functions declared in the body whose last statement is a tail call
NestedTailDecls(node) ==
  Cardinality({ i \in DOMAIN node.body :
                  /\ node.body[i].kind = "fndcl"
                  /\ node.body[i].body # <<>>
                  /\ tailcalling(node.body[i]) })

\* the function handed to the backend ends with a call of itself that
\* passes as many arguments as it has parameters, and has been emitted
TailCallEmitted ==
  /\ jpc # "idle"
  /\ jpc # "start"
  /\ jfn.body # <<>>
  /\ tailcalling(jfn)

\* C4 as claimed: the text emitted for a function that ends with a tail
\* call of itself contains exactly one  while (true)  and no call of the
\* function.
C4_OneLoopNoSelfCall ==
  TailCallEmitted =>
    /\ jout.kind = "code"
    /\ Occurrences(jout.code, "while (true)") = 1
    /\ CallsOf(jout.code, jfn.name) = 0

\* C4 as the code has it: the body of the emitted function is one
\*  while (true)  loop around all its statements (a function declared in
\* the body brings its own loop), and the tail call itself is not emitted:
\* the text calls the function exactly as often as the other statements and
\* the arguments of the tail call do.
C4_TailCallBecomesLoop ==
  TailCallEmitted =>
    /\ jout.kind = "code"
    /\ LET k == Len(jfn.args) + Len(jfn.args) - 1
           open == 5 + k    \* function* f ( p1 , .. , pn ) {
       IN  /\ jout.code[open + 1] = "while (true)"
           /\ jout.code[open + 2] = "{"
           /\ jout.code[Len(jout.code) - 1] = "}"
           /\ jout.code[Len(jout.code)] = "}"
    /\ Occurrences(jout.code, "while (true)") = 1 + NestedTailDecls(jfn)
    /\ CallsOf(jout.code, jfn.name) = SelfCallsInAll(jfn.body, jfn.name) - 1

\* a tail-calling function with a call of itself among its other statements
C4_Witness ==
  /\ TailCallEmitted
  /\ jout.kind = "code"
  /\ Len(jfn.body) = 2
  /\ jfn.body[1].kind = "fncal"
  /\ jfn.body[1].name = jfn.name
  /\ CallsOf(jout.code, jfn.name) = 1

\* C5: at the start of the next iteration of the emitted loop every
\* parameter holds the value its argument of the tail call had with the
\* parameter values of the current iteration (f(b, a) swaps a and b).
C5_LoopPassesTailCallValues ==
  (jpc = "running" /\ jip > Len(LoopStmts(jout.code))) =>
    \A i \in DOMAIN jfn.args : jenv[jfn.args[i].name] = jargs[i]


(***************************************************************************)
(* C29: node_to_code returns a string or an Error value for every FuncDecl *)
(* the parser can produce, the function with an empty body included, which *)
(* is emitted as a plain function without a loop; it never throws.         *)
(***************************************************************************)
C29_FuncDeclNeverThrows ==
  jpc # "start" =>
    /\ jout.kind \in {"code", "error"}
    /\ jfn.body = <<>> =>
         /\ jout.kind = "code"
         /\ Occurrences(jout.code, "while (true)") = 0

\* what holds instead: every FuncDecl with at least one statement is
\* answered with a string or an Error value
NonEmptyFuncDeclNeverThrows ==
  (jpc # "start" /\ jfn.body # <<>>) => jout.kind \in {"code", "error"}
(***************************************************************************)
(* The compiler driver (index.ts, the top-level script)                    *)
(***************************************************************************)
\* args[i], with i counted from 1
ArgAt(args, i) == IF i >= 1 /\ i <= Len(args) THEN args[i] ELSE Undef

\* what the argument loop ends with: it went through, or process.exit(1)
ArgsDone(opt, input) == [exit |-> FALSE, opt |-> opt, input |-> input]
ArgsExit(opt, input) == [exit |-> TRUE, opt |-> opt, input |-> input]

\* the flags that take the next argument as the output path (the path
\* with a "/" appended, set when it names a directory, is overwritten by
\* the path itself on line 71)
OutputFlags == {"-o", "-output"}

RECURSIVE arg_loop(_, _, _, _)
\* for (let i = 0; i < args.length; ++i) { ... }
arg_loop(args, i, opt, input) ==
  IF i > Len(args) THEN ArgsDone(opt, input)
  ELSE LET arg == args[i]
           val == ArgAt(args, i + 1)
       IN  IF arg \in {"-run", "-r"}
           THEN arg_loop(args, i + 1, [opt EXCEPT !.run = TRUE], input)
           ELSE IF arg \in {"-help", "-h"}
           THEN arg_loop(args, i + 1, [opt EXCEPT !.help = TRUE], input)
           ELSE IF arg \in OutputFlags
           THEN IF val = Undef THEN ArgsExit(opt, input)
                ELSE arg_loop(args, i + 2, [opt EXCEPT !.output = val], input)
           ELSE IF arg = "-debug-ir"
           THEN arg_loop(args, i + 1, [opt EXCEPT !.emit_ir = TRUE], input)
           ELSE IF arg \in {"-t", "-target"}
           THEN IF val = Undef THEN ArgsExit(opt, input)
                ELSE IF val = "go"
                THEN arg_loop(args, i + 2, [opt EXCEPT !.target = "golang"], input)
                ELSE IF val = "js"
                THEN arg_loop(args, i + 2, [opt EXCEPT !.target = "javascript"], input)
                ELSE ArgsExit(opt, input)
           ELSE IF arg = "-runtime"
           THEN IF val = Undef THEN ArgsExit(opt, input)
                ELSE IF val \in {"node", "bun", "deno"}
                THEN arg_loop(args, i + 2, [opt EXCEPT !.runtime = val], input)
                ELSE arg_loop(args, i + 2, opt, input)
           ELSE arg_loop(args, i + 1, opt, arg)

\* if (errored) { ...; process.exit(1); }
ExitOnErrorMutant(errored) == FALSE
ExitOnError(errored) == errored

(***************************************************************************)
(* Command lines: at most MaxArgs arguments out of ArgWords.               *)
(***************************************************************************)
ArgWords == {"-h", "-r", "-o", "-out", "-debug-ir", "-t", "js", "main.ef"}

DriverInputs == SeqsUpTo(ArgWords, MaxArgs)

(***************************************************************************)
(* The driver component.  What the file system, the parser, the backend    *)
(* and the started program answer is chosen freely.                        *)
(***************************************************************************)
InitDriver ==
  /\ dargv \in DriverInputs
  /\ dopt = DefaultOpt
  /\ dinput = Undef
  /\ dpc = "args"
  /\ derrored = FALSE
  /\ dtop = 0
  /\ dok = {}
  /\ dflushed = FALSE
  /\ dexit = Running
  /\ dwhy = "none"
  /\ OthersIdle("driver")

\* process.exit(status), or the end of the script, or an uncaught exception
Exit(status, why) ==
  /\ dexit' = status
  /\ dwhy' = why
  /\ dpc' = "exited"

\* the script goes on at another place
Goto(pc) ==
  /\ dpc' = pc
  /\ UNCHANGED <<dexit, dwhy>>

\* lines 44-139: the argument loop, -help, the missing input path
DrvArgs ==
  /\ dpc = "args"
  /\ LET r == arg_loop(dargv, 1, dopt, dinput)
     IN  /\ dopt' = r.opt
         /\ dinput' = r.input
         /\ IF r.exit THEN Exit(1, "args")
            ELSE IF r.opt.help THEN Exit(0, "help")
            ELSE IF r.input = Undef THEN Exit(1, "noinput")
            ELSE Goto("open")
  /\ UNCHANGED <<dargv, derrored, dtop, dok, dflushed>>
  /\ Frame("driver")

\* lines 141-150: the input file is there or not
DrvOpen ==
  /\ dpc = "open"
  /\ \E exists \in BOOLEAN :
       IF exists THEN Goto("parse") ELSE Exit(1, "nofile")
  /\ UNCHANGED <<dargv, dopt, dinput, derrored, dtop, dok, dflushed>>
  /\ Frame("driver")

\* lines 155-167: one round of the loop around parser.parse_statement()
DrvParseStmt ==
  /\ dpc = "parse"
  /\ \E node \in {"stmt", "eof", "null", "throw"} :
       CASE node = "stmt" ->
              /\ dtop < MaxTop
              /\ dtop' = dtop + 1
              /\ Goto("parse")
              /\ UNCHANGED derrored
         [] node = "eof" ->
              /\ Goto("parsed")
              /\ UNCHANGED <<dtop, derrored>>
         [] node = "null" ->
              /\ derrored' = TRUE
              /\ Goto("parsed")
              /\ UNCHANGED dtop
         [] node = "throw" ->
              /\ Exit(1, "exception")
              /\ UNCHANGED <<dtop, derrored>>
  /\ UNCHANGED <<dargv, dopt, dinput, dok, dflushed>>
  /\ Frame("driver")

\* lines 169-182: the exit on a parse error, and -debug-ir
DrvParsed ==
  /\ dpc = "parsed"
  /\ IF ExitOnError(derrored)
     THEN /\ Exit(1, "parse")
          /\ UNCHANGED dok
     ELSE /\ dok' = IF derrored THEN dok ELSE dok \cup {"parse"}
          /\ IF dopt.emit_ir THEN Exit(0, "ir") ELSE Goto("setup")
  /\ UNCHANGED <<dargv, dopt, dinput, derrored, dtop, dflushed>>
  /\ Frame("driver")

\* lines 184-209: the backend is chosen and set up
DrvSetup ==
  /\ dpc = "setup"
  /\ IF dopt.target \notin {"golang", "javascript"}
     THEN /\ Exit(1, "target")
          /\ UNCHANGED <<derrored, dok>>
     ELSE \E errored \in BOOLEAN :
            /\ derrored' = errored
            /\ IF ExitOnError(errored)
               THEN /\ Exit(1, "setup")
                    /\ UNCHANGED dok
               ELSE /\ dok' = IF errored THEN dok ELSE dok \cup {"setup"}
                    /\ Goto("emit")
  /\ UNCHANGED <<dargv, dopt, dinput, dtop, dflushed>>
  /\ Frame("driver")

\* lines 211-215: emit_code() returns errored, or throws
DrvEmit ==
  /\ dpc = "emit"
  /\ \E res \in {"ok", "errored", "throw"} :
       IF res = "throw"
       THEN /\ Exit(1, "exception")
            /\ UNCHANGED <<derrored, dok>>
       ELSE /\ derrored' = (res = "errored")
            /\ IF ExitOnError(res = "errored")
               THEN /\ Exit(1, "emit")
                    /\ UNCHANGED dok
               ELSE /\ dok' = IF res = "errored" THEN dok ELSE dok \cup {"emit"}
                    /\ Goto("flush")
  /\ UNCHANGED <<dargv, dopt, dinput, dtop, dflushed>>
  /\ Frame("driver")

\* lines 217-240: the output directory is made if missing, then
\* codegen.flush() writes the file
DrvFlush ==
  /\ dpc = "flush"
  /\ \E mkdir \in {"ok", "throw"}, failed \in BOOLEAN :
       IF mkdir = "throw"
       THEN /\ Exit(1, "mkdir")
            /\ UNCHANGED dflushed
       ELSE /\ dflushed' = TRUE
            /\ IF failed THEN Exit(1, "flush")
               ELSE IF dopt.run THEN Goto("run") ELSE Exit(0, "done")
  /\ UNCHANGED <<dargv, dopt, dinput, derrored, dtop, dok>>
  /\ Frame("driver")

\* lines 242-265: -run starts the emitted program; a failing program makes
\* the shell call throw
DrvRun ==
  /\ dpc = "run"
  /\ \E ran \in BOOLEAN :
       IF ran THEN Exit(0, "done") ELSE Exit(1, "exception")
  /\ UNCHANGED <<dargv, dopt, dinput, derrored, dtop, dok, dflushed>>
  /\ Frame("driver")

NextDriver ==
  DrvArgs \/ DrvOpen \/ DrvParseStmt \/ DrvParsed \/ DrvSetup \/ DrvEmit
    \/ DrvFlush \/ DrvRun

SpecDriver == InitDriver /\ [][NextDriver]_vars

(***************************************************************************)
(* Claims about the driver                                                 *)
(***************************************************************************)
Stages == {"parse", "setup", "emit"}

\* C8: the output file is written (codegen.flush) only after parsing,
\* setup_codegen and emit_code have all reported success; when one of them
\* fails or the input file is missing the process exits with status 1 and
\* nothing has been written; status 0 is reached only after a successful
\* write, after -help, or after -debug-ir printing that followed a
\* successful parse.
C8_WriteOnlyAfterSuccess ==
  /\ dflushed => Stages \subseteq dok
  /\ (dpc = "exited" /\ dwhy \in {"nofile", "parse", "setup", "emit"}) =>
       (dexit = 1 /\ ~dflushed)
  /\ dpc \in {"setup", "emit", "flush", "run"} => ~derrored
  /\ dexit = 0 =>
       \/ dwhy = "help"
       \/ dwhy = "ir" /\ "parse" \in dok /\ ~dflushed
       \/ dwhy = "done" /\ dflushed /\ Stages \subseteq dok

\* emit_code has failed after a successful parse and setup
C8_Witness ==
  /\ dexit = 1
  /\ dwhy = "emit"
  /\ derrored
  /\ dok = {"parse", "setup"}
  /\ ~dflushed


RECURSIVE DocumentedArgs(_, _, _, _)
\* the output path and the input file as the usage text gives them: -out
\* and -o take the next argument as the output path, -t takes the next
\* argument as the target, the other flags stand alone, and what is left
\* is the input file
DocumentedArgs(args, i, out, input) ==
  IF i > Len(args) THEN [output |-> out, input |-> input]
  ELSE IF args[i] \in {"-out", "-o"} /\ i < Len(args)
       THEN DocumentedArgs(args, i + 2, args[i + 1], input)
  ELSE IF args[i] = "-t" /\ i < Len(args)
       THEN DocumentedArgs(args, i + 2, out, input)
  ELSE IF args[i] \in {"-out", "-o", "-t", "-h", "-r", "-debug-ir"}
       THEN DocumentedArgs(args, i + 1, out, input)
  ELSE DocumentedArgs(args, i + 1, out, args[i])

\* C22: for every argument list the argument that follows -out or -o
\* becomes the output path and is not taken as the input file; the input
\* file is the remaining positional argument.
C22_OutputFlagTakesItsArgument ==
  (dpc # "args" /\ dwhy # "args" /\ ArgAt(dargv, Len(dargv)) \notin {"-out", "-o", "-t"}) =>
    LET Same(doc) == dopt.output = doc.output /\ dinput = doc.input
    IN  Same(DocumentedArgs(dargv, 1, DefaultOpt.output, Undef))

\* the same for the argument lists without -out
OutputFlagOTakesItsArgument ==
  (dpc # "args" /\ dwhy # "args" /\ \A i \in DOMAIN dargv : dargv[i] # "-out") =>
    LET Same(doc) == dopt.output = doc.output /\ dinput = doc.input
    IN  Same(DocumentedArgs(dargv, 1, DefaultOpt.output, Undef))
(***************************************************************************)
(* Types (typechecker, LangType).  A type is an object: oid tells objects  *)
(* of equal content apart.  Builtin types are the objects with oid 0; an   *)
(* object with oid Fresh is a temporary that no other reference names.     *)
(* origin is TRUE where the source has a position and FALSE where it has   *)
(* null.  A call ends with "true", "false" or "throw".                     *)
(***************************************************************************)
Fresh == -1
NoSize == -1     \* size: null of an array type

AnyType == [kind |-> "any", origin |-> FALSE, oid |-> 0]
VoidType == [kind |-> "void", origin |-> FALSE, oid |-> 0]
Prim(base) == [kind |-> "primitive", base |-> base, origin |-> FALSE, oid |-> 0]
\* the value undefined where a type is expected
UndefinedType == [kind |-> Undef]

Ints == <<Prim("ptr"), Prim("sisz"), Prim("uisz"), Prim("si32"), Prim("ui32"),
          Prim("si8"), Prim("ui8")>>
Flts == <<Prim("flt32"), Prim("flt64")>>

\* the table T, by name
T(name) ==
  CASE name = "any" -> AnyType
    [] name = "void" -> VoidType
    [] OTHER -> Prim(name)

TypeNames ==
  {"any", "void", "null", "string", "bool", "ptr", "sisz", "uisz", "si32",
   "ui32", "si8", "ui8", "flt32", "flt64"}

EnumType(name, values, oid) ==
  [kind |-> "enum", name |-> name, values |-> values, origin |-> TRUE,
   oid |-> oid]
StructType(name, fields, oid) ==
  [kind |-> "struct", name |-> name, fields |-> fields, origin |-> TRUE,
   oid |-> oid]
TaggedUnionType(name, values, oid) ==
  [kind |-> "tagged-union", name |-> name, values |-> values, origin |-> TRUE,
   oid |-> oid]
ArrayType(base, size, oid) ==
  [kind |-> "array", base |-> base, size |-> size, origin |-> FALSE,
   oid |-> oid]
FuncType(name, args, returns, variadic, oid) ==
  [kind |-> "func", name |-> name, args |-> args, returns |-> returns,
   variadic |-> variadic, origin |-> FALSE, oid |-> oid]

\* a === b
SameObject(a, b) == a = b /\ (a = UndefinedType \/ a.oid # Fresh)

\* the primitive case of types_are_equivalent
prim_equivalent(a_base, b_base) ==
  LET special == {"string", "bool", "null", "ptr"}
      floats == {"flt32", "flt64"}
  IN  IF a_base \in special THEN a_base = b_base
      ELSE IF b_base \in special THEN FALSE
      ELSE IF a_base \in floats THEN b_base \in floats
      ELSE IF b_base \in floats THEN FALSE
      ELSE TRUE

Bool3(b) == IF b THEN "true" ELSE "false"

\* ea.values.every((eai, i) => eai.name === eb.values[i]!.name && ...),
\* from index i on
RECURSIVE EnumEvery(_, _, _)
EnumEvery(ea, eb, i) ==
  IF i > Len(ea.values) THEN "true"
  ELSE IF i > Len(eb.values) THEN "throw"   \* eb.values[i] is undefined
  ELSE IF ea.values[i].name = eb.values[i].name
          /\ ea.values[i].value = eb.values[i].value
       THEN EnumEvery(ea, eb, i + 1)
       ELSE "false"

RECURSIVE types_are_equivalent(_, _)
RECURSIVE ArgsSomeDiffer(_, _, _)
RECURSIVE FieldsEvery(_, _, _)
RECURSIVE UnionEvery(_, _, _)

\* fa.args.some((argA, idx) => !types_are_equivalent(argA.type, fb.args[idx]!.type))
ArgsSomeDiffer(fa, fb, i) ==
  IF i > Len(fa.args) THEN "false"
  ELSE LET r == types_are_equivalent(fa.args[i].type, fb.args[i].type)
       IN  IF r = "throw" THEN "throw"
           ELSE IF r = "false" THEN "true"
           ELSE ArgsSomeDiffer(fa, fb, i + 1)

\* sa.fields.every((fa, idx) => fa.name === fb.name && types_are_equivalent(..))
FieldsEvery(sa, sb, i) ==
  IF i > Len(sa.fields) THEN "true"
  ELSE IF sa.fields[i].name # sb.fields[i].name THEN "false"
  ELSE LET r == types_are_equivalent(sa.fields[i].type, sb.fields[i].type)
       IN  IF r # "true" THEN r ELSE FieldsEvery(sa, sb, i + 1)

\* ua.values.every((va, i) => va.name === ub.values[i]!.name && ...)
UnionEvery(ua, ub, i) ==
  IF i > Len(ua.values) THEN "true"
  ELSE IF ua.values[i].name # ub.values[i].name THEN "false"
  ELSE LET r == types_are_equivalent(ua.values[i].type, ub.values[i].type)
       IN  IF r # "true" THEN r ELSE UnionEvery(ua, ub, i + 1)

types_are_equivalent(a, b) ==
  IF SameObject(a, b) THEN "true"
  ELSE IF a = UndefinedType THEN "throw"     \* a.kind
  ELSE IF a.kind = "any" THEN "true"
  ELSE IF b = UndefinedType THEN "throw"     \* b.kind
  ELSE IF b.kind = "any" THEN "true"
  ELSE IF a.kind # b.kind THEN "false"
  ELSE CASE a.kind = "primitive" -> Bool3(prim_equivalent(a.base, b.base))
         [] a.kind = "func" ->
              IF Len(a.args) # Len(b.args) THEN "false"
              ELSE LET differ == ArgsSomeDiffer(a, b, 1)
                   IN  IF differ = "throw" THEN "throw"
                       ELSE IF differ = "true" THEN "false"
                       ELSE types_are_equivalent(a.returns, b.returns)
         [] a.kind = "array" ->
              IF a.size # b.size THEN "false"
              ELSE types_are_equivalent(a.base, b.base)
         [] a.kind = "struct" ->
              IF Len(a.fields) # Len(b.fields) THEN "false"
              ELSE FieldsEvery(a, b, 1)
         [] a.kind = "enum" ->
              IF a.name # b.name THEN "false" ELSE EnumEvery(a, b, 1)
         [] a.kind = "tagged-union" ->
              IF a.name # b.name \/ Len(a.values) # Len(b.values) THEN "false"
              ELSE UnionEvery(a, b, 1)
         [] OTHER -> "false"

RECURSIVE SomeEquivalent(_, _, _)
\* Object.values(list).some(x => types_are_equivalent(t, x)), from index i
SomeEquivalent(t, list, i) ==
  IF i > Len(list) THEN "false"
  ELSE LET r == types_are_equivalent(t, list[i])
       IN  IF r # "false" THEN r ELSE SomeEquivalent(t, list, i + 1)

is_any_integer(t) ==
  IF t = UndefinedType THEN "throw"      \* t.kind
  ELSE IF t.kind = "primitive" THEN SomeEquivalent(t, Ints, 1)
  ELSE IF t.kind = "enum" THEN "true"
  ELSE "false"

is_number(t) ==
  LET r == is_any_integer(t)
  IN  IF r # "false" THEN r ELSE SomeEquivalent(t, Flts, 1)

(***************************************************************************)
(* The types compared: the builtin types, and enums, structs, tagged       *)
(* unions, arrays and function types built over them, each as two objects. *)
(***************************************************************************)
MemberNames == {"A", "B"}

\* the members m1 = 0, m2 = 1, ... of an enum
EnumValues(names) == [i \in DOMAIN names |-> [name |-> names[i], value |-> i - 1]]

EnumTypes ==
  { EnumType(name, EnumValues(names), 1) :
      name \in {"E", "F"}, names \in SeqsUpTo(MemberNames, MaxMembers) }

\* types of members and elements
ElementTypes ==
  { Prim("si32"), Prim("string"),
    EnumType("E", EnumValues(<<"A">>), 1),
    EnumType("E", EnumValues(<<"A", "B">>), 1) }

MemberLists ==
  { <<>> } \cup { <<[name |-> "x", type |-> t]>> : t \in ElementTypes }
    \cup { <<[name |-> "x", type |-> Prim("si32")], [name |-> "y", type |-> t]>> :
             t \in ElementTypes }

StructTypes == { StructType("S", fields, 1) : fields \in MemberLists }
TaggedUnionTypes ==
  { TaggedUnionType(name, values, 1) :
      name \in {"U", "V"}, values \in MemberLists }
ArrayTypes ==
  { ArrayType(base, size, 1) : base \in ElementTypes, size \in {NoSize, 2} }
FuncTypes ==
  { FuncType("f", args, returns, variadic, 1) :
      args \in MemberLists, returns \in {VoidType, Prim("string")},
      variadic \in {Null, [name |-> "rest", type |-> AnyType]} }

\* a second object with the content of t
Copy(t) == [t EXCEPT !.oid = 2]

BuiltinTypes == { T(name) : name \in TypeNames }

TypeUniverse ==
  LET made == EnumTypes \cup StructTypes \cup TaggedUnionTypes
                \cup ArrayTypes \cup FuncTypes
  IN  BuiltinTypes \cup { Copy(t) : t \in BuiltinTypes }
        \cup made \cup { Copy(t) : t \in made }

(***************************************************************************)
(* Comparing two types                                                     *)
(***************************************************************************)
InitEquiv ==
  /\ ta \in TypeUniverse
  /\ tb \in TypeUniverse
  /\ taa = "none"
  /\ tab = "none"
  /\ tba = "none"
  /\ tpc = "start"
  /\ OthersIdle("equiv")

\* types_are_equivalent on (ta, ta), (ta, tb) and (tb, ta)
Compare ==
  /\ tpc = "start"
  /\ taa' = types_are_equivalent(ta, ta)
  /\ tab' = types_are_equivalent(ta, tb)
  /\ tba' = types_are_equivalent(tb, ta)
  /\ tpc' = "compared"
  /\ UNCHANGED <<ta, tb>>
  /\ Frame("equiv")

NextEquiv == Compare

SpecEquiv == InitEquiv /\ [][NextEquiv]_vars

(***************************************************************************)
(* Claims about type equivalence                                           *)
(***************************************************************************)
\* C9: types_are_equivalent is reflexive and symmetric over all types,
\* enums of one name with different numbers of members included:
\* types_are_equivalent(a, a) is true, and types_are_equivalent(a, b) ends
\* with the same boolean as types_are_equivalent(b, a), neither throwing.
C9_ReflexiveSymmetric ==
  tpc = "compared" =>
    /\ taa = "true"
    /\ tab \in {"true", "false"}
    /\ tba = tab


\* both types are primitive types that is_any_integer takes for integers
BothIntegers(a, b) ==
  /\ a.kind = "primitive"
  /\ b.kind = "primitive"
  /\ is_any_integer(a) = "true"
  /\ is_any_integer(b) = "true"

\* C23: every two primitive types that is_any_integer classifies as
\* integers are equivalent to each other, and a type of kind any is
\* equivalent to every type, as either argument.
C23_IntegersAndAnyEquivalent ==
  tpc = "compared" =>
    /\ (BothIntegers(ta, tb) => tab = "true")
    /\ ((ta.kind = "any" \/ tb.kind = "any") => (tab = "true" /\ tba = "true"))

\* the same without the pointer type
IntegersButPtrAndAnyEquivalent ==
  (tpc = "compared" /\ Prim("ptr") \notin {[ta EXCEPT !.oid = 0], [tb EXCEPT !.oid = 0]}) =>
    /\ (BothIntegers(ta, tb) => tab = "true")
    /\ ((ta.kind = "any" \/ tb.kind = "any") => (tab = "true" /\ tba = "true"))
(***************************************************************************)
(* Checking function calls (typechecker: get_type, check_types).  The      *)
(* context is one table of variables: the chain of child contexts and the  *)
(* global table hold distinct names here, so lookup through the chain is   *)
(* lookup in their union.  A variable is modelled by the type object it    *)
(* is bound to.                                                            *)
(***************************************************************************)
NoVar == [kind |-> "novar"]      \* what get_var returns for an unknown name

get_var(vs, name) == IF name \in DOMAIN vs THEN vs[name] ELSE NoVar

\* ctx.get_type(name): the global type table, filled from T
ctx_get_type(name) == IF name \in TypeNames THEN T(name) ELSE UndefinedType

\* the object { ...t, origin }; it is a new object
set_t_origin(t) == [t EXCEPT !.origin = TRUE, !.oid = Fresh]

TypeOk(t) == [st |-> "ok", value |-> t]
TypeErr == [st |-> "err"]
TypeThrow == [st |-> "throw"]

is_math_operator(op) == op \in Range(MATH_BINOPS)

RECURSIVE get_type(_, _)
\* get_type on the nodes an argument is made of; of Binop, the math
\* operators (the nodes generated below use no other)
get_type(vs, node) ==
  CASE node.kind = "lit" ->
         IF node.type = "str" THEN TypeOk(set_t_origin(T("string")))
         ELSE TypeOk(set_t_origin(T("sisz")))
    [] node.kind = "fncal" ->
         LET ref == get_var(vs, node.name)
         IN  IF ref = NoVar THEN TypeErr
             ELSE IF ref.kind # "func" THEN TypeErr
             ELSE TypeOk(ref.returns)
    [] node.kind = "idnt" ->
         LET usr_var == get_var(vs, node.ident)
         IN  IF usr_var = NoVar THEN TypeErr ELSE TypeOk(usr_var)
    [] node.kind = "expr" -> get_type(vs, node.item)
    [] node.kind = "binop" /\ is_math_operator(node.op) ->
         LET lhs_t_result == get_type(vs, node.lhs)
             rhs_t_result == get_type(vs, node.rhs)
         IN  IF lhs_t_result.st # "ok" THEN lhs_t_result
             ELSE IF rhs_t_result.st # "ok" THEN rhs_t_result
             ELSE LET lhs_n == is_number(lhs_t_result.value)
                      rhs_n == is_number(rhs_t_result.value)
                      rhs_t == rhs_t_result.value
                  IN  IF lhs_n = "throw" THEN TypeThrow
                      ELSE IF lhs_n = "false" THEN TypeErr
                      ELSE IF rhs_n = "throw" THEN TypeThrow
                      ELSE IF rhs_n = "false" THEN TypeErr
                      ELSE IF rhs_t.kind = "primitive"
                           THEN TypeOk(ctx_get_type(rhs_t.base))
                           ELSE TypeOk(T("uisz"))

\* t.base, undefined where the type has none
BaseOf(t) == IF t.kind = "primitive" THEN t.base ELSE Undef

\* passed_arg.origin = null; passed_arg.base = expects_arg.base
Rebased(passed_arg, expects_arg) ==
  [kind |-> passed_arg.kind, base |-> BaseOf(expects_arg), origin |-> FALSE,
   oid |-> passed_arg.oid]

\* the variables after the object obj became now
Written(vs, obj, now) ==
  [n \in DOMAIN vs |-> IF SameObject(vs[n], obj) THEN now ELSE vs[n]]

\* the type an argument of index i (from 1) is checked against
ExpectsArg(fn_t, i) ==
  IF fn_t.variadic # Null /\ i - 1 >= Len(fn_t.args) - 1
  THEN IF fn_t.variadic.type = Null THEN AnyType ELSE fn_t.variadic.type
  ELSE fn_t.args[i].type

CallResult(res, vs) == [res |-> res, vars |-> vs]

RECURSIVE CheckArgs(_, _, _, _)
\* the loop over node.args of the FuncCall case, from index i on
CheckArgs(vs, fn_t, args, i) ==
  IF i > Len(args) THEN CallResult("true", vs)
  ELSE
    LET Rewrite(expects_arg, passed_arg, equiv, expects_n, passed_n) ==
          IF equiv # "true" THEN CallResult(equiv, vs)
          ELSE IF expects_n = "throw" THEN CallResult("throw", vs)
          ELSE IF expects_n = "false" THEN CheckArgs(vs, fn_t, args, i + 1)
          ELSE IF passed_n = "throw" THEN CallResult("throw", vs)
          ELSE IF passed_n = "false" \/ ~passed_arg.origin
               THEN CheckArgs(vs, fn_t, args, i + 1)
          ELSE IF passed_arg.kind = "enum" \/ expects_arg.kind = "enum"
               THEN CheckArgs(vs, fn_t, args, i + 1)
          ELSE IF BaseOf(passed_arg) # BaseOf(expects_arg)
               THEN CheckArgs(
                      Written(vs, passed_arg, Rebased(passed_arg, expects_arg)),
                      fn_t, args, i + 1)
          ELSE CheckArgs(vs, fn_t, args, i + 1)
        Passed(expects_arg, result) ==
          IF result.st = "throw" THEN CallResult("throw", vs)
          ELSE IF result.st = "err" THEN CallResult("false", vs)
          ELSE Rewrite(expects_arg, result.value,
                       types_are_equivalent(expects_arg, result.value),
                       is_number(expects_arg), is_number(result.value))
    IN  Passed(ExpectsArg(fn_t, i), get_type(vs, args[i]))

Max(a, b) == IF a > b THEN a ELSE b

\* check_types on a FuncCall node
check_types_FuncCall(vs, node) ==
  LET fn == get_var(vs, node.name)
  IN  IF fn = NoVar THEN CallResult("false", vs)
      ELSE IF fn.kind # "func" THEN CallResult("false", vs)
      ELSE IF Len(node.args) # Len(fn.args) /\ fn.variadic = Null
           THEN CallResult("false", vs)
      ELSE IF fn.variadic # Null /\ Len(node.args) < Max(0, Len(fn.args) - 1)
           THEN CallResult("false", vs)
      ELSE CheckArgs(vs, fn, node.args, 1)

\* the variables of create_global_context
GlobalVars ==
  LET params == <<[name |-> "format_string", type |-> T("string")],
                  [name |-> "rest", type |-> T("void")]>>
      rest == [name |-> "rest", type |-> AnyType]
  IN  [n \in {"printf", "printnf", "fmt"} |->
         FuncType(n, params, IF n = "fmt" THEN T("string") ELSE T("sisz"),
                  rest, 0)]

\* what register_global binds to fn f(a: si32, b: string) {}
UserFunc ==
  FuncType("f", <<[name |-> "a", type |-> T("si32")],
                  [name |-> "b", type |-> T("string")]>>,
           T("void"), Null, 0)

\* what register_global binds to fn h(a: string) { return `a'; }: the
\* return type is a new object made from the literal
UnaryFunc ==
  FuncType("h", <<[name |-> "a", type |-> T("string")]>>,
           [T("string") EXCEPT !.origin = TRUE, !.oid = 3], Null, 0)

\* let x := (5);  let s := (`a');
VarInits == [x |-> ExprNode(IntLit(5)), s |-> ExprNode(StrLit("a"))]
VarOid == [x |-> 1, s |-> 2]

ArgNodes ==
  { StrLit("a"), IntLit(7), IdentNode("x"), IdentNode("s"),
    BinopNode("+", IntLit(1), IdentNode("x")) }

CalleeNames == {"printf", "f", "x"}

CallNodes ==
  { FnCallNode(name, args) :
      name \in CalleeNames, args \in SeqsUpTo(ArgNodes, MaxCallArgs) }

InitCheck ==
  /\ cvars = [n \in DOMAIN GlobalVars \cup {"f", "h"} |->
                IF n = "f" THEN UserFunc
                ELSE IF n = "h" THEN UnaryFunc ELSE GlobalVars[n]]
  /\ cpre = <<>>
  /\ cnode = Null
  /\ cres = "none"
  /\ OthersIdle("check")

\* get_type on a VarDecl without a type and with an initialization: the
\* variable is bound to the object that is the type of the initialization
DeclVar(name) ==
  /\ cres = "none"
  /\ name \notin DOMAIN cvars
  /\ LET init_type_result == get_type(cvars, VarInits[name])
     IN  /\ init_type_result.st = "ok"
         /\ cvars' = [n \in DOMAIN cvars \cup {name} |->
                        IF n = name
                        THEN [init_type_result.value EXCEPT !.oid = VarOid[name]]
                        ELSE cvars[n]]
  /\ UNCHANGED <<cpre, cnode, cres>>
  /\ Frame("check")

\* check_types on a FuncCall node
CheckCall(node) ==
  /\ cres = "none"
  /\ LET Returned(r) == cres' = r.res /\ cvars' = r.vars
     IN  Returned(check_types_FuncCall(cvars, node))
  /\ cpre' = cvars
  /\ cnode' = node
  /\ Frame("check")

\* the loop over the statements of a function body goes on to the next
\* statement when check_types returned true; it returns on false
NextStatement ==
  /\ cres = "true"
  /\ cres' = "none"
  /\ cnode' = Null
  /\ cpre' = <<>>
  /\ UNCHANGED cvars
  /\ Frame("check")

(***************************************************************************)
(* Claims about checking calls                                             *)
(***************************************************************************)
\* the argument is of a type equivalent to t
ArgEquivalent(vs, t, arg) ==
  LET r == get_type(vs, arg)
  IN  r.st = "ok" /\ types_are_equivalent(t, r.value) = "true"

\* the condition under which a call is to be accepted
Acceptable(vs, node) ==
  LET fn == get_var(vs, node.name)
      n == Len(node.args)
  IN  /\ fn # NoVar
      /\ fn.kind = "func"
      /\ IF fn.variadic = Null
         THEN /\ n = Len(fn.args)
              /\ \A i \in 1..n : ArgEquivalent(vs, fn.args[i].type, node.args[i])
         ELSE /\ n >= Len(fn.args) - 1
              /\ \A i \in 1..n :
                   IF i <= Len(fn.args) - 1
                   THEN ArgEquivalent(vs, fn.args[i].type, node.args[i])
                   ELSE ArgEquivalent(vs,
                          IF fn.variadic.type = Null THEN AnyType
                          ELSE fn.variadic.type, node.args[i])

\* C10: check_types accepts a FuncCall exactly when the callee is a
\* variable of kind func and, without a variadic tail, the number of
\* arguments is the arity and each argument type is equivalent to its
\* parameter type, or, with a variadic tail, at least arity-1 arguments are
\* passed, the first arity-1 equivalent to their parameters and the others
\* to the variadic element type (any when unset); so printf with a string
\* first argument and any further arguments is accepted.
C10_CallAcceptedIffArgumentsFit ==
  cnode.kind = "fncal" => cres = Bool3(Acceptable(cpre, cnode))


\* C28: check_types on a FuncCall rewrites the base of an argument's type
\* only when the argument node itself is an integer Literal: the type
\* recorded for every variable and the type of every function are the
\* same before and after the call is checked.
C28_CallLeavesRecordedTypes ==
  (cnode.kind = "fncal" /\ cres # "none") =>
    \A n \in DOMAIN cpre : cvars[n] = cpre[n]

\* the same for the calls none of whose arguments is a variable
LiteralCallLeavesRecordedTypes ==
  (cnode.kind = "fncal" /\ cres # "none"
     /\ \A i \in DOMAIN cnode.args : cnode.args[i].kind = "lit") =>
    \A n \in DOMAIN cpre : cvars[n] = cpre[n]

(***************************************************************************)
(* Checking pipe chains (typechecker: check_types, case PipeOp)            *)
(***************************************************************************)
RECURSIVE VariadicArgsFail(_, _, _, _, _, _)
\* the loop `for (i = 0; i <= call_node.args.length; ++i)` of a variadic
\* target, from index i (from 1) on; failed is the flag so far.  The
\* result is "true" when the loop ends with failed set.
VariadicArgsFail(vs, fn_t, args, prv_T, i, failed) ==
  IF i > Len(args) + 1 THEN Bool3(failed)
  ELSE
    LET Compared(equiv) ==
          IF equiv = "throw" THEN "throw"
          ELSE VariadicArgsFail(vs, fn_t, args, prv_T, i + 1,
                                failed \/ equiv = "false")
        Typed(carg_result, earg_t) ==
          IF carg_result.st = "throw" THEN "throw"
          ELSE IF carg_result.st = "err"
               THEN VariadicArgsFail(vs, fn_t, args, prv_T, i + 1, TRUE)
          ELSE Compared(types_are_equivalent(earg_t, carg_result.value))
    IN  Typed(IF i <= Len(args) THEN get_type(vs, args[i]) ELSE TypeOk(prv_T),
              IF i - 1 >= Len(fn_t.args) - 1
              THEN IF fn_t.variadic.type = Null THEN AnyType
                   ELSE fn_t.variadic.type
              ELSE fn_t.args[i].type)

RECURSIVE FixedArgsFail(_, _, _, _, _)
\* the loop `for (i = 0; i < call_node.args.length; ++i)` of a target
\* without variadic tail: an argument of another type assigns
\* failed = false
FixedArgsFail(vs, fn_t, args, i, failed) ==
  IF i > Len(args) THEN Bool3(failed)
  ELSE
    LET Compared(equiv) ==
          IF equiv = "throw" THEN "throw"
          ELSE FixedArgsFail(vs, fn_t, args, i + 1,
                             IF equiv = "false" THEN FALSE ELSE failed)
        Typed(carg_result) ==
          IF carg_result.st = "throw" THEN "throw"
          ELSE IF carg_result.st = "err"
               THEN FixedArgsFail(vs, fn_t, args, i + 1, TRUE)
          ELSE Compared(types_are_equivalent(fn_t.args[i].type,
                                             carg_result.value))
    IN  Typed(get_type(vs, args[i]))

\* one step of the chain: [res, T] with res "true" when the loop goes on
\* with held.T = T
PipeStepResult(res, t) == [res |-> res, T |-> t]

\* a call target: the loop ended with the flag f
ArgsChecked(f, prv_T, returns) ==
  IF f = "throw" THEN PipeStepResult("throw", prv_T)
  ELSE IF f = "true" THEN PipeStepResult("false", prv_T)
  ELSE PipeStepResult("true", returns)

\* the body of `while (piper)` for a FuncCall element
pipe_step_call(vs, val, prv_T, fn_var) ==
  IF fn_var = NoVar THEN PipeStepResult("false", prv_T)
  ELSE IF fn_var.kind # "func" THEN PipeStepResult("false", prv_T)
  ELSE IF Len(fn_var.args) # Len(val.args) + 1
          /\ Len(fn_var.args) < Len(val.args) + 1
          /\ fn_var.variadic = Null
       THEN PipeStepResult("false", prv_T)
  ELSE IF Len(fn_var.args) # Len(val.args) + 1
          /\ Len(fn_var.args) - (IF fn_var.variadic # Null THEN 1 ELSE 0)
               > Len(val.args) + 1
       THEN PipeStepResult("false", prv_T)
  ELSE IF fn_var.variadic # Null
       THEN ArgsChecked(VariadicArgsFail(vs, fn_var, val.args, prv_T, 1, FALSE),
                        prv_T, fn_var.returns)
  ELSE IF Len(fn_var.args) # Len(val.args) + 1
       THEN PipeStepResult("false", prv_T)
  ELSE ArgsChecked(FixedArgsFail(vs, fn_var, val.args, 1, FALSE),
                   prv_T, fn_var.returns)

\* the body of `while (piper)` for an element that is no FuncCall, of
\* type val_result
pipe_step_value(val_result, prv_T) ==
  IF val_result.st = "throw" THEN PipeStepResult("throw", prv_T)
  ELSE IF val_result.st = "err" THEN PipeStepResult("false", prv_T)
  ELSE IF val_result.value = UndefinedType THEN PipeStepResult("throw", prv_T)
  ELSE IF val_result.value.kind # "func" THEN PipeStepResult("false", prv_T)
  ELSE IF Len(val_result.value.args) = 0 THEN PipeStepResult("false", prv_T)
  ELSE IF Len(val_result.value.args) # 1
          /\ (IF val_result.value.variadic # Null
              THEN Len(val_result.value.args) > 2
              ELSE TRUE)
       THEN PipeStepResult("false", prv_T)
  ELSE LET Compared(equiv) ==
             IF equiv # "true" THEN PipeStepResult(equiv, prv_T)
             ELSE PipeStepResult("true", val_result.value.returns)
       IN  Compared(types_are_equivalent(val_result.value.args[1].type, prv_T))

\* the body of `while (piper)` for one element pipe.val
pipe_step(vs, val, prv_T) ==
  IF val.kind = "fncal"
  THEN pipe_step_call(vs, val, prv_T, get_var(vs, val.name))
  ELSE pipe_step_value(get_type(vs, val), prv_T)

RECURSIVE pipe_loop(_, _, _)
\* while (piper) { ... }
pipe_loop(vs, piper, held_T) ==
  IF piper = Null THEN "true"
  ELSE LET Stepped(r) ==
             IF r.res # "true" THEN r.res
             ELSE pipe_loop(vs, piper.next, r.T)
       IN  Stepped(pipe_step(vs, piper.val, held_T))

\* check_types on a PipeOp node
check_types_PipeOp(vs, node) ==
  LET Piped(prv_result) ==
        IF prv_result.st = "throw" THEN "throw"
        ELSE IF prv_result.st = "err" THEN "false"
        ELSE pipe_loop(vs, node.next, prv_result.value)
  IN  Piped(get_type(vs, node.val))

\* the values piped and the targets piped to
PipeSources == { StrLit("a"), IntLit(7), IdentNode("x") }
PipeArgNodes == { StrLit("a"), IntLit(7) }
PipeTargetNodes ==
  { IdentNode(n) : n \in {"h", "f", "printf", "x"} }
    \cup { FnCallNode(n, args) :
             n \in {"h", "f", "printf"}, args \in SeqsUpTo(PipeArgNodes, 2) }

RECURSIVE PipeTailNodes(_)
\* the chains of n targets
PipeTailNodes(n) ==
  IF n = 0 THEN { Null }
  ELSE { PipeNode(t, rest) : t \in PipeTargetNodes, rest \in PipeTailNodes(n - 1) }

PipeOpNodes ==
  { PipeNode(v, rest) :
      v \in PipeSources, rest \in UNION { PipeTailNodes(n) : n \in 1..MaxPipe } }

\* check_types on a PipeOp node
CheckPipe(node) ==
  /\ cres = "none"
  /\ cres' = check_types_PipeOp(cvars, node)
  /\ cpre' = cvars
  /\ cnode' = node
  /\ UNCHANGED cvars
  /\ Frame("check")

(***************************************************************************)
(* Claims about checking pipe chains                                       *)
(***************************************************************************)
\* the types of the explicitly written arguments followed by the piped one
PassedTypes(vs, args, prv_T) ==
  [i \in 1..(Len(args) + 1) |->
     IF i <= Len(args) THEN get_type(vs, args[i]) ELSE TypeOk(prv_T)]

\* the parameter type position i is held against
ParamType(fn_t, i) ==
  IF fn_t.variadic # Null /\ i >= Len(fn_t.args)
  THEN IF fn_t.variadic.type = Null THEN AnyType ELSE fn_t.variadic.type
  ELSE fn_t.args[i].type

\* the target's parameter types are not pairwise equivalent to the passed
\* types
StepMismatch(vs, val, prv_T) ==
  LET name == IF val.kind = "fncal" THEN val.name ELSE val.ident
      args == IF val.kind = "fncal" THEN val.args ELSE <<>>
      fn_t == get_var(vs, name)
      passed == PassedTypes(vs, args, prv_T)
  IN  /\ fn_t # NoVar
      /\ fn_t.kind = "func"
      /\ \/ fn_t.variadic = Null /\ Len(passed) # Len(fn_t.args)
         \/ fn_t.variadic # Null /\ Len(passed) < Len(fn_t.args) - 1
         \/ \E i \in 1..Len(passed) :
              /\ fn_t.variadic # Null \/ i <= Len(fn_t.args)
              /\ passed[i].st = "ok"
              /\ types_are_equivalent(ParamType(fn_t, i), passed[i].value) = "false"

RECURSIVE ChainMismatch(_, _, _)
\* some step of the chain mismatches, the steps before it being calls of
\* functions
ChainMismatch(vs, piper, held_T) ==
  IF piper = Null THEN FALSE
  ELSE LET val == piper.val
           name == IF val.kind = "fncal" THEN val.name ELSE val.ident
           fn_t == get_var(vs, name)
       IN  \/ StepMismatch(vs, val, held_T)
           \/ /\ fn_t # NoVar
              /\ fn_t.kind = "func"
              /\ ChainMismatch(vs, piper.next, fn_t.returns)

PipeMismatch(vs, node) ==
  LET prv_result == get_type(vs, node.val)
  IN  prv_result.st = "ok" /\ ChainMismatch(vs, node.next, prv_result.value)

\* C11: check_types returns false for every pipe chain in which, at some
\* step, the target function's parameter types are not pairwise equivalent
\* to the types of the step's written arguments followed by the type of
\* the piped value, for variadic and non-variadic targets alike.
C11_PipeMismatchRejected ==
  (cnode.kind = "pop" /\ PipeMismatch(cpre, cnode)) => cres = "false"


(***************************************************************************)
(* The statements of a function body, checked one after another            *)
(***************************************************************************)
NextCheck ==
  \/ \E name \in DOMAIN VarInits : DeclVar(name)
  \/ \E node \in CallNodes : CheckCall(node)
  \/ \E node \in PipeOpNodes : CheckPipe(node)
  \/ NextStatement

SpecCheck == InitCheck /\ [][NextCheck]_vars

(***************************************************************************)
(* Scopes (typechecker: check_types on VarDecl, IfElse and the body of a   *)
(* FuncDecl).  A variable table maps a name to the type and the position   *)
(* of its declaration; a context is a table and the tables of its parents. *)
(***************************************************************************)
NoLoc == 0       \* loc: null (positions are lines, from 1)

VarEntry(type, loc) == [type |-> type, loc |-> loc]

\* let name := (`a');  at line pos
LetNode(name, pos) ==
  [kind |-> "vardcl", name |-> name, type |-> "()",
   init |-> ExprNode(StrLit("a")), pos |-> pos]
\* printf(`a', name);  at line pos
UseNode(name, pos) ==
  [kind |-> "fncal", name |-> "printf",
   args |-> <<StrLit("a"), IdentNode(name)>>, pos |-> pos]
IfElseNode(cond, body, els, pos) ==
  [kind |-> "iffi", cond |-> cond, body |-> body, else |-> els, pos |-> pos]

\* ctx.has_var: the context's own table only
has_var(tbl, name) == name \in DOMAIN tbl

\* ctx.add_var: Map.set
add_var(tbl, name, entry) ==
  [n \in DOMAIN tbl \cup {name} |-> IF n = name THEN entry ELSE tbl[n]]

\* the types get_var finds from a context of table tbl whose parents hold
\* the tables outer (flattened) and the global variables
VisibleTypes(tbl, outer) ==
  [n \in DOMAIN tbl \cup DOMAIN outer \cup DOMAIN GlobalVars |->
     IF n \in DOMAIN tbl THEN tbl[n].type
     ELSE IF n \in DOMAIN outer THEN outer[n].type
     ELSE GlobalVars[n]]

ScopeResult(res, tbl) == [res |-> res, tbl |-> tbl]

\* the variable is added with the type of its initialization
Declared(tbl, node, init_t_result) ==
  IF init_t_result.st # "ok" THEN ScopeResult("false", tbl)
  ELSE ScopeResult("true",
         add_var(tbl, node.name, VarEntry(init_t_result.value, node.pos)))

\* check_types on a VarDecl with an initialization and no declared type
check_types_VarDecl(tbl, outer, node) ==
  IF has_var(tbl, node.name)
  THEN IF tbl[node.name].loc # node.pos THEN ScopeResult("false", tbl)
       ELSE ScopeResult("true", tbl)
  ELSE Declared(tbl, node, get_type(VisibleTypes(tbl, outer), node.init))

\* get_type on the same VarDecl, as the body loop of a FuncDecl calls it
get_type_VarDecl(tbl, outer, node) ==
  Declared(tbl, node, get_type(VisibleTypes(tbl, outer), node.init))

\* check_types(ctx, n) for a statement of a block, ctx having the table tbl
check_block_stmt(tbl, outer, n) ==
  IF n.kind = "vardcl" THEN check_types_VarDecl(tbl, outer, n)
  ELSE ScopeResult(check_types_FuncCall(VisibleTypes(tbl, outer), n).res, tbl)

EmptyTable == [n \in {} |-> NoLoc]

RECURSIVE check_block(_, _, _)
\* for (const n of body) if (!check_types(ctx.new_child_ctx(), n)) return false
check_block(outer, block, i) ==
  IF i > Len(block) THEN "true"
  ELSE LET Checked(r) ==
             IF r.res # "true" THEN r.res ELSE check_block(outer, block, i + 1)
       IN  Checked(check_block_stmt(EmptyTable, outer, block[i]))

\* the two loops of the IfElse case
check_blocks(tbl, node) ==
  LET Body(b) == IF b # "true" THEN b ELSE "else"
      Checked(b, e) == IF b = "else" THEN e ELSE b
  IN  Checked(Body(check_block(tbl, node.body, 1)),
              check_block(tbl, node.else, 1))

\* check_types on an IfElse node, in a context of table tbl
check_types_IfElse(tbl, node) ==
  LET Cond(equiv) == IF equiv # "true" THEN equiv ELSE check_blocks(tbl, node)
      Typed(cond_t_result) ==
        IF cond_t_result.st # "ok" THEN "false"
        ELSE Cond(types_are_equivalent(cond_t_result.value, T("bool")))
  IN  Typed(get_type(VisibleTypes(tbl, EmptyTable), node.cond))

\* one turn of the loop over node.body of a FuncDecl
check_body_stmt(tbl, n) ==
  IF n.kind = "vardcl" THEN get_type_VarDecl(tbl, EmptyTable, n)
  ELSE IF n.kind = "iffi" THEN ScopeResult(check_types_IfElse(tbl, n), tbl)
  ELSE ScopeResult(check_types_FuncCall(VisibleTypes(tbl, EmptyTable), n).res, tbl)

(***************************************************************************)
(* The function bodies checked: fn main(c: bool) { ... } with statements   *)
(* let y, let z, printf(.., y) and if c { ... } else { ... }; the          *)
(* statement i of the body is at line 10 i, the statement j of its if body *)
(* at line 10 i + j, of its else body at line 10 i + 5 + j.                *)
(***************************************************************************)
SimpleKinds == { <<"let", "y">>, <<"let", "z">>, <<"use", "y">> }

SimpleNode(k, pos) ==
  IF k[1] = "let" THEN LetNode(k[2], pos) ELSE UseNode(k[2], pos)

BlockAt(kinds, base) == [j \in DOMAIN kinds |-> SimpleNode(kinds[j], base + j)]

StmtShapes ==
  { [kind |-> "simple", k |-> k] : k \in SimpleKinds }
    \cup { [kind |-> "if", body |-> b, els |-> e] :
             b \in SeqsUpTo(SimpleKinds, MaxBlock),
             e \in SeqsUpTo(SimpleKinds, MaxBlock - 1) }

StmtAt(shape, i) ==
  IF shape.kind = "simple" THEN SimpleNode(shape.k, 10 * i)
  ELSE IfElseNode(IdentNode("c"), BlockAt(shape.body, 10 * i),
                  BlockAt(shape.els, 10 * i + 5), 10 * i)

FuncBodies ==
  { [i \in DOMAIN shapes |-> StmtAt(shapes[i], i)] :
      shapes \in SeqsUpTo(StmtShapes, MaxBody) }

\* fn_ctx after get_func_body_and_args_types: the arguments, loc: null
InitScope ==
  /\ sbody \in FuncBodies
  /\ si = 1
  /\ sctx = [n \in {"c"} |-> VarEntry(T("bool"), NoLoc)]
  /\ slast = Null
  /\ sres = "running"
  /\ OthersIdle("scope")

\* one turn of the loop over node.body
CheckBodyStmt ==
  /\ sres = "running"
  /\ si <= Len(sbody)
  /\ LET Checked(r) ==
           /\ slast' = [node |-> sbody[si], pre |-> sctx, res |-> r.res]
           /\ sctx' = r.tbl
           /\ sres' = IF r.res = "true" THEN "running" ELSE r.res
     IN  Checked(check_body_stmt(sctx, sbody[si]))
  /\ si' = si + 1
  /\ UNCHANGED sbody
  /\ Frame("scope")

\* the loop ran to its end: return true
BodyDone ==
  /\ sres = "running"
  /\ si > Len(sbody)
  /\ sres' = "true"
  /\ UNCHANGED <<sbody, si, sctx, slast>>
  /\ Frame("scope")

NextScope == CheckBodyStmt \/ BodyDone

SpecScope == InitScope /\ [][NextScope]_vars

(***************************************************************************)
(* Claims about scopes                                                     *)
(***************************************************************************)
\* every use in the block names a variable declared before it in the
\* block or outside of it, and no name is declared twice in the block
BlockWellScoped(outer, block) ==
  /\ \A i \in DOMAIN block :
       block[i].kind = "fncal" =>
         \/ block[i].args[2].ident \in DOMAIN outer
         \/ \E j \in 1..(i - 1) :
              block[j].kind = "vardcl" /\ block[j].name = block[i].args[2].ident
  /\ \A i, j \in DOMAIN block :
       (i # j /\ block[i].kind = "vardcl" /\ block[j].kind = "vardcl")
         => block[i].name # block[j].name

\* C12: checking an if/else, the statements of one block are checked in
\* one and the same fresh child context: a variable declared by a
\* statement of the block is visible to the later statements of the block
\* (so a block whose uses all follow their declarations is accepted), and
\* no variable of a block is in the enclosing context after the if/else.
C12_BlockSharesOneChildContext ==
  (slast # Null /\ slast.node.kind = "iffi") =>
    /\ sctx = slast.pre
    /\ (BlockWellScoped(slast.pre, slast.node.body)
        /\ BlockWellScoped(slast.pre, slast.node.else))
         => slast.res = "true"

\* the names declared by more than one statement of the block
DeclaredTwice(block) ==
  { block[i].name : i \in { i \in DOMAIN block :
      /\ block[i].kind = "vardcl"
      /\ \E j \in DOMAIN block :
           j # i /\ block[j].kind = "vardcl" /\ block[j].name = block[i].name } }

\* the scopes of the body: the body itself and the blocks of its if/else
ScopesOf(body) ==
  { body } \cup { body[i].body : i \in { i \in DOMAIN body : body[i].kind = "iffi" } }
           \cup { body[i].else : i \in { i \in DOMAIN body : body[i].kind = "iffi" } }

\* C13: check_types returns false for every program in which one scope
\* declares one name twice at two positions, two let statements directly
\* in a function body included.
C13_RedeclarationRejected ==
  sres = "true" => \A scope \in ScopesOf(sbody) : DeclaredTwice(scope) = {}

(***************************************************************************)
(* TypesContext: a chain of contexts, each with its own table of types and *)
(* of variables, over the two process-wide global tables.  chain[1] is the *)
(* root (parent null) and chain[k - 1] the parent of chain[k].  A table is *)
(* a function from names; a variable entry tells the table it was put in.  *)
(***************************************************************************)
NewContext == [types |-> <<>>, vars |-> <<>>]
MapSet(map, name, value) == (name :> value) @@ map
MapHas(map, name) == name \in DOMAIN map

RECURSIVE TypesContext_get_type(_, _, _, _)
TypesContext_get_type(chain, global, k, name) ==
  IF MapHas(chain[k].types, name) THEN chain[k].types[name]
  ELSE LET Found(t) ==
             IF t = UndefinedType
             THEN IF MapHas(global.types, name) THEN global.types[name]
                  ELSE UndefinedType
             ELSE t
       IN  Found(IF k > 1 THEN TypesContext_get_type(chain, global, k - 1, name)
                 ELSE UndefinedType)

RECURSIVE TypesContext_get_var(_, _, _, _)
TypesContext_get_var(chain, global, k, name) ==
  IF MapHas(chain[k].vars, name) THEN chain[k].vars[name]
  ELSE IF k > 1 THEN TypesContext_get_var(chain, global, k - 1, name)
  ELSE IF MapHas(global.vars, name) THEN global.vars[name]
  ELSE NoVar

RECURSIVE TypesContext_type_exists(_, _, _, _)
TypesContext_type_exists(chain, global, k, name) ==
  IF k = 1 THEN MapHas(chain[k].types, name)
  ELSE \/ MapHas(chain[k].types, name)
       \/ TypesContext_type_exists(chain, global, k - 1, name)
       \/ MapHas(global.types, name)

RECURSIVE TypesContext_var_exists(_, _, _, _)
TypesContext_var_exists(chain, global, k, name) ==
  IF k = 1 THEN MapHas(chain[k].vars, name)
  ELSE \/ MapHas(chain[k].vars, name)
       \/ TypesContext_var_exists(chain, global, k - 1, name)
       \/ MapHas(global.vars, name)

\* the names put into the tables
CtxTypeNames == {"any", "string", "S"}
CtxVarNames == {"printf", "x"}
VarAt(name, k) == [kind |-> "var", name |-> name, at |-> k]

\* the global tables after the seeding of create_global_context
SeededTypes == [n \in TypeNames |-> T(n)]
SeededVars == [n \in {"printf", "printnf", "fmt"} |-> VarAt(n, 0)]

InitCtx ==
  /\ xctx = <<>>
  /\ xglobal = [types |-> <<>>, vars |-> <<>>]
  /\ OthersIdle("ctx")

\* create_global_context: a root context; the globals are seeded unless
\* the root reports the type any as existing
create_global_context ==
  /\ xctx = <<>>
  /\ xctx' = <<NewContext>>
  /\ xglobal' = IF ~TypesContext_type_exists(<<NewContext>>, xglobal, 1, "any")
                THEN [types |-> SeededTypes, vars |-> SeededVars]
                ELSE xglobal
  /\ Frame("ctx")

\* ctx.new_child_ctx() on the innermost context
new_child_ctx ==
  /\ Len(xctx) >= 1
  /\ Len(xctx) < MaxDepth
  /\ xctx' = Append(xctx, NewContext)
  /\ UNCHANGED xglobal
  /\ Frame("ctx")

\* ctx.add_type(name, type) on the k-th context
add_type(k, name) ==
  /\ k \in DOMAIN xctx
  /\ xctx' = [xctx EXCEPT ![k].types = MapSet(@, name, T(name))]
  /\ UNCHANGED xglobal
  /\ Frame("ctx")

\* ctx.add_var(var_t) on the k-th context
TypesContext_add_var(k, name) ==
  /\ k \in DOMAIN xctx
  /\ xctx' = [xctx EXCEPT ![k].vars = MapSet(@, name, VarAt(name, k))]
  /\ UNCHANGED xglobal
  /\ Frame("ctx")

\* ctx.set_global_var(var_t)
set_global_var(name) ==
  /\ Len(xctx) >= 1
  /\ xglobal' = [xglobal EXCEPT !.vars = MapSet(@, name, VarAt(name, 0))]
  /\ UNCHANGED xctx
  /\ Frame("ctx")

\* ctx.set_global_type(name, type)
set_global_type(name) ==
  /\ Len(xctx) >= 1
  /\ xglobal' = [xglobal EXCEPT !.types = MapSet(@, name, T(name))]
  /\ UNCHANGED xctx
  /\ Frame("ctx")

NextCtx ==
  \/ create_global_context
  \/ new_child_ctx
  \/ \E k \in 1..MaxDepth, name \in CtxTypeNames : add_type(k, name)
  \/ \E k \in 1..MaxDepth, name \in CtxVarNames : TypesContext_add_var(k, name)
  \/ \E name \in CtxVarNames : set_global_var(name)
  \/ \E name \in CtxTypeNames : set_global_type(name)

SpecCtx == InitCtx /\ [][NextCtx]_vars

(***************************************************************************)
(* Claims about TypesContext                                               *)
(***************************************************************************)
\* var_exists and type_exists agree with get_var and get_type in context k
ExistsIffFound(k) ==
  /\ \A name \in CtxVarNames :
       TypesContext_var_exists(xctx, xglobal, k, name)
         <=> TypesContext_get_var(xctx, xglobal, k, name) # NoVar
  /\ \A name \in CtxTypeNames :
       TypesContext_type_exists(xctx, xglobal, k, name)
         <=> TypesContext_get_type(xctx, xglobal, k, name) # UndefinedType

\* C24: for every context, root or child, and every name, var_exists(name)
\* is true exactly when get_var(name) finds an entry in the context, an
\* ancestor or the global table, and type_exists(name) exactly when
\* get_type(name) finds one; a root context reports the seeded builtins as
\* existing.
C24_ExistsIffLookupFinds ==
  /\ \A k \in DOMAIN xctx : ExistsIffFound(k)
  /\ Len(xctx) >= 1 =>
       /\ TypesContext_var_exists(xctx, xglobal, 1, "printf")
       /\ TypesContext_type_exists(xctx, xglobal, 1, "any")

\* the same for the child contexts only
ChildExistsIffLookupFinds ==
  \A k \in DOMAIN xctx : k > 1 => ExistsIffFound(k)

(***************************************************************************)
(* Registering a global function (typechecker: register_global,            *)
(* find_returns, register_variable).  The context of the function is one   *)
(* table of variables, as for the checking of calls: the arguments, the    *)
(* variables declared in the body, and the global functions.               *)
(***************************************************************************)
FnDArg(name, type) == [kind |-> "fndclarg", name |-> name, type |-> type]
FuncDecl(name, args, returns, body) ==
  [kind |-> "fndcl", name |-> name, returns |-> returns, args |-> args,
   body |-> body]
\* an if with its body and, where has_else, its else branch
IfElse(body, has_else, els) ==
  [kind |-> "ifelse", body |-> body, has_else |-> has_else, els |-> els]

\* parse_type_from_str on a plain type name
parse_type_from_str(str) ==
  IF ctx_get_type(str) = UndefinedType THEN TypeErr
  ELSE TypeOk(ctx_get_type(str))

RegOk(vs) == [st |-> "ok", vs |-> vs]
RegErr(why) == [st |-> "err", why |-> why]

\* register_variable: the result and the table with the variable added
register_variable(vs, parsed_node) ==
  IF parsed_node.init # Null
  THEN IF parsed_node.type.name # "()"
       THEN LET var_usr_decl_type_result ==
                  parse_type_from_str(parsed_node.type.name)
                init_type_result == get_type(vs, parsed_node.init)
            IN  IF var_usr_decl_type_result.st # "ok" THEN RegErr("find")
                ELSE IF init_type_result.st # "ok" THEN RegErr("find")
                ELSE IF types_are_equivalent(init_type_result.value,
                          var_usr_decl_type_result.value) # "true"
                THEN RegErr("find")
                ELSE RegOk(MapSet(vs, parsed_node.name,
                                  var_usr_decl_type_result.value))
       ELSE LET init_type_result == get_type(vs, parsed_node.init)
            IN  IF init_type_result.st # "ok" THEN RegErr("find")
                ELSE RegOk(MapSet(vs, parsed_node.name,
                                  init_type_result.value))
  ELSE IF parsed_node.type.name = "()" THEN RegErr("find")
  ELSE LET result == parse_type_from_str(parsed_node.type.name)
       IN  IF result.st # "ok" THEN RegErr("find")
           ELSE RegOk(MapSet(vs, parsed_node.name, result.value))

RECURSIVE find_returns(_, _, _)
\* find_returns(ctx, body, found): the return statements of the body and
\* of the branches of its ifs, in order; a branch gets a child context, so
\* what it declares is gone after it
find_returns(vs, body, found) ==
  IF body = <<>> THEN [st |-> "ok", found |-> found, vs |-> vs]
  ELSE LET n == Head(body)
       IN  CASE n.kind = "vardcl" ->
                  LET result == register_variable(vs, n)
                  IN  IF result.st # "ok" THEN result
                      ELSE find_returns(result.vs, Tail(body), found)
             [] n.kind = "ifelse" ->
                  LET result == find_returns(vs, n.body, found)
                  IN  IF result.st # "ok" THEN result
                      ELSE IF n.has_else
                      THEN LET result2 == find_returns(vs, n.els, result.found)
                           IN  IF result2.st # "ok" THEN result2
                               ELSE find_returns(vs, Tail(body), result2.found)
                      ELSE find_returns(vs, Tail(body), result.found)
             [] n.kind = "kword" /\ n.word = "return" ->
                  find_returns(vs, Tail(body), Append(found, n))
             [] OTHER -> find_returns(vs, Tail(body), found)

RECURSIVE register_args(_, _, _)
\* the loop over node.args: the number of errors, the arguments given to
\* the builder and the context of the function
register_args(args, i, acc) ==
  IF i > Len(args) THEN acc
  ELSE LET arg_node == args[i]
           type_parse_result == parse_type_from_str(arg_node.type)
       IN  IF arg_node.type = "()"
           THEN register_args(args, i + 1,
                              [acc EXCEPT !.errors = acc.errors + 1])
           ELSE IF type_parse_result.st # "ok"
           THEN register_args(args, i + 1,
                              [acc EXCEPT !.errors = acc.errors + 1])
           ELSE IF acc.errors > 0 THEN register_args(args, i + 1, acc)
           ELSE register_args(args, i + 1,
                  [acc EXCEPT
                     !.args = Append(acc.args,
                                [name |-> arg_node.name,
                                 type |-> type_parse_result.value]),
                     !.vs = MapSet(acc.vs, arg_node.name,
                                   type_parse_result.value)])

\* returns.every(r => r.expr && r.expr.kind == 'fncal' &&
\*                    r.expr.name == node.name)
EverySelfCall(returns, name) ==
  \A i \in DOMAIN returns :
    /\ returns[i].expr # Null
    /\ returns[i].expr.kind = "fncal"
    /\ returns[i].expr.name = name

RECURSIVE returns_loop(_, _, _, _, _, _)
\* the loop over the found returns: the first one that gives a type sets
\* the return type of the builder and ends the loop
returns_loop(vs, name, returns, i, ret, errors) ==
  IF i > Len(returns) THEN [st |-> "ok", ret |-> ret, errors |-> errors]
  ELSE LET expr == returns[i].expr
       IN  IF expr = Null
           THEN [st |-> "ok", ret |-> T("void"), errors |-> errors]
           ELSE IF expr.kind = "lit"
           THEN [st |-> "ok", ret |-> get_type(vs, expr).value,
                 errors |-> errors]
           ELSE IF expr.kind = "fncal"
           THEN IF expr.name \notin DOMAIN vs
                THEN IF expr.name = name
                     THEN returns_loop(vs, name, returns, i + 1, ret, errors)
                     ELSE returns_loop(vs, name, returns, i + 1, ret,
                                       errors + 1)
                ELSE IF vs[expr.name].kind # "func"
                THEN returns_loop(vs, name, returns, i + 1, ret, errors + 1)
                ELSE [st |-> "ok", ret |-> vs[expr.name].returns,
                      errors |-> errors]
           ELSE LET t_result == get_type(vs, expr)
                IN  IF t_result.st # "ok"
                    THEN [st |-> "err", ret |-> ret, errors |-> errors]
                    ELSE [st |-> "ok", ret |-> t_result.value,
                          errors |-> errors]

\* register_global on a FuncDecl node: the result ("ok", or the reason of
\* the Err) and the global variables after it.  node.returns is not read.
register_global(globals, node) ==
  LET Rejected(why) == [res |-> why, globals |-> globals]
      a == register_args(node.args, 1,
                         [errors |-> 0, args |-> <<>>, vs |-> globals])
      WithArgs(returns_result) ==
        IF returns_result.st # "ok" THEN Rejected("find")
        ELSE IF returns_result.found # <<>>
                  /\ EverySelfCall(returns_result.found, node.name)
        THEN Rejected("recursive")
        ELSE LET l == returns_loop(returns_result.vs, node.name,
                                   returns_result.found, 1, T("void"), 0)
             IN  IF l.st # "ok" THEN Rejected("type")
                 ELSE IF l.errors > 0 THEN Rejected("call")
                 ELSE [res |-> "ok",
                       globals |->
                         MapSet(globals, node.name,
                                FuncType(node.name, a.args, l.ret, Null, 0))]
  IN  IF a.errors > 0 THEN Rejected("args")
      ELSE WithArgs(find_returns(a.vs, node.body, <<>>))

(***************************************************************************)
(* Inputs: the function f with no argument or one, each written return,    *)
(* and bodies of up to MaxFnBody statements.                               *)
(***************************************************************************)
RegArgLists ==
  { <<>>, <<FnDArg("a", "si32")>>, <<FnDArg("a", "()")>>,
    <<FnDArg("a", "nope")>> }

WrittenReturns == {"()", "si32", "string"}

ReturnExprs ==
  { Null, IntLit(1), StrLit("a"), IdentNode("a"), IdentNode("x"),
    FnCallNode("f", <<>>), FnCallNode("printf", <<StrLit("a")>>),
    FnCallNode("h", <<>>), FnCallNode("a", <<>>) }

Returns == { KeywordNode("return", e) : e \in ReturnExprs }

RegStmts ==
  Returns
    \cup { VarDecl("x", TypeName("()", Null), IntLit(1)),
           VarDecl("x", TypeName("()", Null), IdentNode("y")),
           IfElse(<<KeywordNode("return", FnCallNode("f", <<>>))>>, FALSE, <<>>),
           IfElse(<<KeywordNode("return", FnCallNode("f", <<>>))>>, TRUE,
                  <<KeywordNode("return", IntLit(1))>>),
           FnCallNode("printf", <<StrLit("a")>>) }

RegInputs ==
  { FuncDecl("f", args, returns, body) :
      args \in RegArgLists, returns \in WrittenReturns,
      body \in SeqsUpTo(RegStmts, MaxFnBody) }

InitReg ==
  /\ gnode \in RegInputs
  /\ gvars = GlobalVars
  /\ gres = "none"
  /\ OthersIdle("reg")

\* register_global(ctx, gnode)
RegisterGlobal ==
  /\ gres = "none"
  /\ LET Go(r) == gres' = r.res /\ gvars' = r.globals
     IN  Go(register_global(gvars, gnode))
  /\ UNCHANGED gnode
  /\ Frame("reg")

NextReg == RegisterGlobal

SpecReg == InitReg /\ [][NextReg]_vars

(***************************************************************************)
(* C30: register_global infers the return type from the body only when     *)
(* the written return is "()": a function with a written return type is    *)
(* registered in the global table with that written type, and is never     *)
(* rejected as an infinitely recursive function whose return type cannot   *)
(* be inferred, even if every return expression is a call to itself.       *)
(***************************************************************************)
C30_WrittenReturnIsRegistered ==
  (gres # "none" /\ gnode.returns # "()") =>
    /\ gres # "recursive"
    /\ gres = "ok" =>
         /\ gnode.name \in DOMAIN gvars
         /\ gvars[gnode.name].returns.kind = T(gnode.returns).kind
         /\ BaseOf(gvars[gnode.name].returns) = BaseOf(T(gnode.returns))

\* what holds instead: the written return changes nothing; the outcome and
\* the registered type are those of the same function written without one
WrittenReturnNotRead ==
  gres # "none" =>
    LET same == register_global(GlobalVars, [gnode EXCEPT !.returns = "()"])
    IN  gres = same.res /\ gvars = same.globals
(***************************************************************************)
(* Static backend: replace_print_calls.  The function rewrites the AST in  *)
(* place and returns whether it replaced something; here it yields the     *)
(* rewritten node with that boolean.  Positions are left out.              *)
(***************************************************************************)
Replaced(node, replaced) == [node |-> node, replaced |-> replaced]

\* the name a call of printnf is given
PrintnfNameMutant == "printnf"
PrintnfName == "fmt.Printf"

\* the FuncCall case once its arguments are rewritten to args
replace_call(n, args, replaced) ==
  IF n.name = "printf"
  THEN Replaced([n EXCEPT !.name = "fmt.Printf", !.args = args], TRUE)
  ELSE IF n.name = "printnf"
  THEN IF Len(args) = 0
       THEN Replaced([n EXCEPT !.name = PrintnfName,
                               !.args = <<StrLit("\n")>>], TRUE)
       ELSE IF args[1].kind = "lit" /\ args[1].type = "str"
       THEN Replaced([n EXCEPT !.name = PrintnfName,
                               !.args = [args EXCEPT ![1] =
                                           StrLit(args[1].value \o "\n")]],
                     TRUE)
       ELSE Replaced([n EXCEPT !.name = "fmt.Println",
                               !.args = <<FnCallNode("fmt.Sprintf", args)>>],
                     TRUE)
  ELSE Replaced([n EXCEPT !.args = args], replaced)

RECURSIVE replace_print_calls(_)
RECURSIVE replace_all(_, _)

\* nodes.map(replace_print_calls) with .some(r => r), from index i on
replace_all(nodes, i) ==
  IF i > Len(nodes) THEN Replaced(<<>>, FALSE)
  ELSE LET Joined(head, tail) ==
             Replaced(<<head.node>> \o tail.node, head.replaced \/ tail.replaced)
       IN  Joined(replace_print_calls(nodes[i]), replace_all(nodes, i + 1))

replace_print_calls(n) ==
  IF n = Null THEN Replaced(n, FALSE)
  ELSE CASE n.kind \in {"EoF", "fndclarg", "lit"} -> Replaced(n, FALSE)
    [] n.kind = "fndcl" ->
         LET Body(b) == Replaced([n EXCEPT !.body = b.node], b.replaced)
         IN  Body(replace_all(n.body, 1))
    [] n.kind = "expr" ->
         LET Item(r) == Replaced([n EXCEPT !.item = r.node], r.replaced)
         IN  Item(replace_print_calls(n.item))
    [] n.kind = "binop" ->
         LET Sides(lhs, rhs) ==
               Replaced([n EXCEPT !.lhs = lhs.node, !.rhs = rhs.node],
                        lhs.replaced \/ rhs.replaced)
         IN  Sides(replace_print_calls(n.lhs), replace_print_calls(n.rhs))
    [] n.kind = "pop" ->
         LET Chain(start, nxt) ==
               Replaced([n EXCEPT !.val = start.node, !.next = nxt.node],
                        start.replaced \/ nxt.replaced)
         IN  Chain(replace_print_calls(n.val), replace_print_calls(n.next))
    [] n.kind = "idnt" ->
         IF n.ident = "printf" THEN Replaced([n EXCEPT !.ident = "fmt.Printf"], TRUE)
         ELSE IF n.ident = "printnf"
              THEN Replaced([n EXCEPT !.ident = "fmt.Printf"], TRUE)
         ELSE Replaced(n, FALSE)
    [] n.kind = "fncal" ->
         LET Call(args) == replace_call(n, args.node, args.replaced)
         IN  Call(replace_all(n.args, 1))

(***************************************************************************)
(* The ASTs rewritten                                                      *)
(***************************************************************************)
GoAtoms == { StrLit("a"), IntLit(7), IdentNode("x"), IdentNode("printnf") }

GoCalls ==
  { FnCallNode(name, args) :
      name \in {"printnf", "printf", "f"}, args \in SeqsUpTo(GoAtoms, MaxGoArgs) }

GoInputs ==
  GoAtoms \cup GoCalls
    \cup { FnCallNode(name, <<c>>) : name \in {"printnf", "f"}, c \in GoCalls }
    \cup { PipeNode(a, PipeNode(t, Null)) :
             a \in {StrLit("a"), IdentNode("x")},
             t \in {IdentNode("printnf"), IdentNode("printf")} \cup GoCalls }
    \cup { ExprNode(BinopNode("+", IntLit(7), c)) : c \in GoCalls }
    \cup { FnDeclNode("main", <<>>, <<c, IdentNode("x")>>) : c \in GoCalls }

InitGo ==
  /\ gorig \in GoInputs
  /\ gprev = Null
  /\ gast = gorig
  /\ gret = FALSE
  /\ gn = 0
  /\ OthersIdle("go")

\* replace_print_calls on the AST
ReplacePrintCalls ==
  /\ gn < MaxRewrites
  /\ LET Rewritten(r) == gast' = r.node /\ gret' = r.replaced
     IN  Rewritten(replace_print_calls(gast))
  /\ gprev' = gast
  /\ gn' = gn + 1
  /\ UNCHANGED gorig
  /\ Frame("go")

NextGo == ReplacePrintCalls

SpecGo == InitGo /\ [][NextGo]_vars

(***************************************************************************)
(* Claims about replace_print_calls                                        *)
(***************************************************************************)
RECURSIVE SubNodes(_)
\* the nodes of a tree
SubNodes(n) ==
  IF n = Null THEN {}
  ELSE {n} \cup
    CASE n.kind = "fncal" -> UNION { SubNodes(n.args[i]) : i \in DOMAIN n.args }
      [] n.kind = "fndcl" -> UNION { SubNodes(n.body[i]) : i \in DOMAIN n.body }
      [] n.kind = "pop" -> SubNodes(n.val) \cup SubNodes(n.next)
      [] n.kind = "binop" -> SubNodes(n.lhs) \cup SubNodes(n.rhs)
      [] n.kind = "expr" -> SubNodes(n.item)
      [] OTHER -> {}

\* the node ends its output with a newline by one of the three rules
EndsWithNewline(n) ==
  /\ n.kind = "fncal"
  /\ \/ n.name = "fmt.Printf" /\ n.args = <<StrLit("\n")>>
     \/ /\ n.name = "fmt.Printf" /\ Len(n.args) > 0
        /\ n.args[1].kind = "lit" /\ n.args[1].type = "str"
        /\ \E v \in {"a"} : n.args[1].value = v \o "\n"
     \/ /\ n.name = "fmt.Println" /\ Len(n.args) = 1
        /\ n.args[1].kind = "fncal" /\ n.args[1].name = "fmt.Sprintf"

\* the references to a print function that the rewrite has renamed
PrintReferences(n) ==
  { m \in SubNodes(n) :
      \/ m.kind = "idnt" /\ m.ident \in {"fmt.Printf", "fmt.Println"}
      \/ m.kind = "fncal" /\ m.name \in {"fmt.Printf", "fmt.Println"} }

\* the number of references to name in the tree: one per node, counted
\* along the tree
RECURSIVE CountRefs(_, _)
RECURSIVE CountRefsAll(_, _, _)
CountRefsAll(nodes, names, i) ==
  IF i > Len(nodes) THEN 0
  ELSE CountRefs(nodes[i], names) + CountRefsAll(nodes, names, i + 1)

CountRefs(n, names) ==
  IF n = Null THEN 0
  ELSE CASE n.kind = "fncal" ->
              (IF n.name \in names THEN 1 ELSE 0) + CountRefsAll(n.args, names, 1)
         [] n.kind = "idnt" -> IF n.ident \in names THEN 1 ELSE 0
         [] n.kind = "fndcl" -> CountRefsAll(n.body, names, 1)
         [] n.kind = "pop" -> CountRefs(n.val, names) + CountRefs(n.next, names)
         [] n.kind = "binop" -> CountRefs(n.lhs, names) + CountRefs(n.rhs, names)
         [] n.kind = "expr" -> CountRefs(n.item, names)
         [] OTHER -> 0

\* C14: after replace_print_calls every reference to printnf, a FuncCall
\* or an Ident, ends with a newline by one of the three rules: an AST that
\* referred to printnf and to no printf holds, after the rewrite, only
\* print references with a "\n" literal appended, with "\n" appended to the
\* first string literal, or renamed to fmt.Println around fmt.Sprintf.
C14_EveryPrintnfGetsNewline ==
  (gn = 1 /\ CountRefs(gorig, {"printf"}) = 0)
    => \A m \in PrintReferences(gast) : EndsWithNewline(m)

\* C15: replace_print_calls is idempotent: the tree after the second
\* rewrite is the tree after the first.
C15_RewriteIdempotent ==
  gn = 2 => gast = gprev

C15_Witness ==
  /\ gn = 2
  /\ gast = gprev
  /\ gast # gorig
  /\ CountRefs(gorig, {"printnf"}) > 0

(***************************************************************************)
(* Emitted runtime prelude: printf and printnf.  Text is a sequence of     *)
(* characters; an argument is given as the characters String(arg) yields.  *)
(* The buffer not yet set reads as '' (__buffer ?? '').                    *)
(***************************************************************************)
NewLine == "\n"

\* String(args.pop()) on the reversed arguments: the first one left, or
\* undefined
PopString(args) == IF Len(args) = 0 THEN <<"undefined">> ELSE Head(args)
Popped(args) == IF Len(args) = 0 THEN args ELSE Tail(args)

RECURSIVE printf_loop(_, _, _, _)
\* for (let i = 0; i < fmt.length; ++i) { ... }, from index i (from 1) on
printf_loop(b, fmt, args, i) ==
  IF i > Len(fmt) THEN b
  ELSE IF fmt[i] # "%" THEN printf_loop(Append(b, fmt[i]), fmt, args, i + 1)
  ELSE IF i + 1 <= Len(fmt) /\ fmt[i + 1] = "v"
       THEN printf_loop(b \o PopString(args), fmt, Popped(args), i + 2)
  ELSE printf_loop(b, fmt, args, i + 1)

\* buf.lastIndexOf('\n') counted from 1; 0 when there is none
LastIndexOf(b, ch) ==
  LET at == { i \in DOMAIN b : b[i] = ch }
  IN  IF at = {} THEN 0 ELSE CHOOSE i \in at : \A j \in at : j <= i

\* buf.substring(idx + 1): the index the kept text starts at
KeptFromMutant(idx) == idx
KeptFrom(idx) == idx + 1

\* the buffer and the output after the flush of printf
Flushed(b, out, idx) ==
  IF idx # 0
  THEN [buf |-> SubSeq(b, KeptFrom(idx), Len(b)),
        out |-> out \o SubSeq(b, 1, idx - 1) \o <<NewLine>>]
  ELSE [buf |-> b, out |-> out]

\* the body of printf
printf(buffer, out, fmt, args) ==
  LET Flush(b) == Flushed(b, out, LastIndexOf(b, NewLine))
  IN  Flush(printf_loop(buffer, fmt, args, 1))

\* printnf: printf(fmt + '\n', ...args)
printnf(buffer, out, fmt, args) == printf(buffer, out, Append(fmt, NewLine), args)

\* the formats and the arguments of the calls
PrintFormats ==
  { <<>>, <<"a">>, <<"a", NewLine>>, <<NewLine, "b">>,
    <<"a", NewLine, "b", NewLine>>, <<"%", "v">>, <<"%", "v", "%", "v", NewLine>>,
    <<"%", "d">>, <<"a", "%">> }
PrintArgLists ==
  { <<>>, << <<"x">> >>, << <<"x">>, <<"y">> >>, << <<"x", NewLine, "z">> >> }

InitPrint ==
  /\ rbuf = <<>>
  /\ rout = <<>>
  /\ rall = <<>>
  /\ rn = 0
  /\ OthersIdle("print")

\* yield* printf(fmt, ...args)
CallPrintf(fmt, args) ==
  /\ rn >= 0
  /\ rn < MaxPrints
  /\ LET Done(r) == rbuf' = r.buf /\ rout' = r.out
     IN  Done(printf(rbuf, rout, fmt, args))
  /\ rall' = printf_loop(rall, fmt, args, 1)
  /\ rn' = rn + 1
  /\ Frame("print")

\* yield* printnf(fmt, ...args)
CallPrintnf(fmt, args) ==
  /\ rn >= 0
  /\ rn < MaxPrints
  /\ LET Done(r) == rbuf' = r.buf /\ rout' = r.out
     IN  Done(printnf(rbuf, rout, fmt, args))
  /\ rall' = printf_loop(rall, Append(fmt, NewLine), args, 1)
  /\ rn' = rn + 1
  /\ Frame("print")

NextPrint ==
  \/ \E fmt \in PrintFormats, args \in PrintArgLists : CallPrintf(fmt, args)
  \/ \E fmt \in PrintFormats, args \in PrintArgLists : CallPrintnf(fmt, args)

SpecPrint == InitPrint /\ [][NextPrint]_vars

(***************************************************************************)
(* Claims about printf and printnf                                         *)
(***************************************************************************)
\* C16: after every call of printf or printnf the buffer holds no newline,
\* and the text written to the output device (every flushed part with the
\* newline console.log adds) followed by the buffer is the concatenation
\* of the formatted strings produced so far.
C16_BufferAndOutputAreTheText ==
  rn > 0 =>
    /\ \A i \in DOMAIN rbuf : rbuf[i] # NewLine
    /\ rout \o rbuf = rall

C16_Witness ==
  /\ rn = 2
  /\ rbuf # <<>>
  /\ \E i \in DOMAIN rout : i < Len(rout) /\ rout[i] = NewLine
  /\ rout \o rbuf = rall

(***************************************************************************)
(* Emitted runtime prelude: exec.  A generator is the sequence of values   *)
(* it yields and the value it returns; a value is plain or a promise that  *)
(* resolves to val (ok) or rejects.                                        *)
(***************************************************************************)
Plain(v) == [promise |-> FALSE, val |-> v, ok |-> TRUE]
Promise(v, ok) == [promise |-> TRUE, val |-> v, ok |-> ok]

ExecValues == { Plain(v) : v \in 1..2 } \cup { Promise(v, ok) : v \in 1..2, ok \in BOOLEAN }

\* it.next(...) with the generator at its i-th yield
GenNext(yields, ret, i) ==
  IF i < Len(yields)
  THEN [value |-> yields[i + 1], done |-> FALSE]
  ELSE [value |-> ret, done |-> TRUE]

\* await p, for a promise that resolved
AwaitedMutant(p) == p
Awaited(p) == Plain(p.val)

\* if (step.value instanceof Promise) ... : where exec goes on
AfterNext(step) == IF step.value.promise THEN "await" ELSE "loop"

RECURSIVE YieldLists(_)
YieldLists(n) ==
  IF n = 0 THEN { <<>> }
  ELSE YieldLists(n - 1) \cup
       { Append(s, v) : s \in { t \in YieldLists(n - 1) : Len(t) = n - 1 }, v \in ExecValues }

InitExec ==
  /\ eyields \in YieldLists(MaxYields)
  /\ ereturn \in ExecValues
  /\ ei = 0
  /\ estep = Null
  /\ epromise = "none"
  /\ efed = <<>>
  /\ epc = "start"
  /\ eresult = Null
  /\ OthersIdle("exec")

\* const it = fn(); let step = it.next();
ExecStart ==
  /\ epc = "start"
  /\ LET Stepped(step) ==
           /\ estep' = step
           /\ epc' = AfterNext(step)
           /\ epromise' = IF step.value.promise THEN "pending" ELSE "none"
           /\ ei' = IF step.done THEN ei ELSE ei + 1
     IN  Stepped(GenNext(eyields, ereturn, ei))
  /\ UNCHANGED <<eyields, ereturn, efed, eresult>>
  /\ Frame("exec")

\* the promise exec awaits resolves or rejects
Settle ==
  /\ epc = "await"
  /\ epromise = "pending"
  /\ epromise' = IF estep.value.ok THEN "resolved" ELSE "rejected"
  /\ UNCHANGED <<eyields, ereturn, ei, estep, efed, epc, eresult>>
  /\ Frame("exec")

\* step.value = await step.value, once the promise has settled; a rejected
\* promise makes await throw, which ends exec
ExecAwait ==
  /\ epc = "await"
  /\ epromise \in {"resolved", "rejected"}
  /\ IF epromise = "resolved"
     THEN /\ estep' = [estep EXCEPT !.value = Awaited(estep.value)]
          /\ epc' = "loop"
     ELSE /\ estep' = estep
          /\ epc' = "threw"
  /\ UNCHANGED <<eyields, ereturn, ei, epromise, efed, eresult>>
  /\ Frame("exec")

\* while (!step.done) { step = it.next(step.value); ...
ExecResume ==
  /\ epc = "loop"
  /\ ~estep.done
  /\ efed' = Append(efed, [at |-> ei, value |-> estep.value, state |-> epromise])
  /\ LET Stepped(step) ==
           /\ estep' = step
           /\ epc' = AfterNext(step)
           /\ epromise' = IF step.value.promise THEN "pending" ELSE "none"
           /\ ei' = IF step.done THEN ei ELSE ei + 1
     IN  Stepped(GenNext(eyields, ereturn, ei))
  /\ UNCHANGED <<eyields, ereturn, eresult>>
  /\ Frame("exec")

\* return step.value
ExecReturn ==
  /\ epc = "loop"
  /\ estep.done
  /\ eresult' = estep.value
  /\ epc' = "returned"
  /\ UNCHANGED <<eyields, ereturn, ei, estep, epromise, efed>>
  /\ Frame("exec")

NextExec ==
  \/ ExecStart
  \/ Settle
  \/ ExecAwait
  \/ ExecResume
  \/ ExecReturn

SpecExec == InitExec /\ [][NextExec]_vars

\* exec runs on when it can, and a pending promise settles
SpecExecFair == SpecExec /\ WF_vars(NextExec)

(***************************************************************************)
(* Claims about exec                                                       *)
(***************************************************************************)
\* the value a yield or a return stands for once a promise has resolved
ResolvedValue(y) == [promise |-> FALSE, val |-> y.val, ok |-> TRUE]

NoRejection ==
  /\ \A k \in DOMAIN eyields : eyields[k].ok
  /\ ereturn.ok

ResumedInOrder ==
  /\ Len(efed) <= Len(eyields)
  /\ \A k \in DOMAIN efed :
       /\ efed[k].at = k
       /\ efed[k].value = ResolvedValue(eyields[k])
       /\ efed[k].state = IF eyields[k].promise THEN "resolved" ELSE "none"

ReturnedTheReturnValue ==
  epc = "returned" =>
    /\ Len(efed) = Len(eyields)
    /\ eresult = ResolvedValue(ereturn)

=============================================================================
